---------------------------- MODULE Spec2Model ----------------------------
(***************************************************************************)
(* QPilot: the stage-sequenced workflows of backend/services/pipeline.py,  *)
(* the progress channel of backend/websocket/manager.py, the slot resolver *)
(* of question_selection/question_service.py, the content-plan synthesizer *)
(* of blueprint/blueprint_service.py and the document validator of         *)
(* question_verification/verify_paper.py.                                  *)
(*                                                                         *)
(* pipeline.py and main.py carry unresolved merge-conflict markers; the    *)
(* model follows the HEAD side, which holds the three workflows.  The      *)
(* nodes call generate_blueprint and critique_blueprint, which the model   *)
(* binds to blueprint_service.generate_blueprint and                       *)
(* blueprint_verify.critique_blueprint.                                    *)
(***************************************************************************)
EXTENDS Integers, Sequences, FiniteSets, TLC

VARIABLES
    \* ---- workflow orchestrator, session store, progress channel ----
    phase,        \* "idle" | "start" | "call" | "finish": position inside the running node
    kind,         \* workflow of the running request
    sid,          \* session_id of the running request
    node,         \* index of the running node in the workflow's chain
    result,       \* what the running node's external call returned
    state,        \* PipelineState threaded through the nodes
    store,        \* backend/services/data/<session>/<file>; "absent" when not written
    folders,      \* session folders that exist on disk
    trace,        \* side effects of the running request, in order (channel calls, file writes)
    connections,  \* ConnectionManager.connections (session ids with a registered socket)
    alive,        \* registered sockets whose peer is still there (send_text succeeds)
    received,     \* messages delivered to each session's subscriber during this request
    response,     \* HTTP outcome of the last request
    requests,     \* requests handled so far
    connects,     \* subscriber connects so far
    bloom_form,   \* bloom_* form fields of the last generate-paper request
    \* ---- slot resolver (select_questions) ----
    blueprint,      \* the content plan handed to select_questions
    pyq_bank,       \* the historical bank handed to select_questions
    used_pyq_ids,   \* identifiers consumed so far
    draft_sections, \* sections finished so far
    draft_questions,\* resolved questions of the section being filled
    stats,          \* selection counters
    sel_pc,         \* "off" | "slot" | "returned" | "raised"
    sel_error,      \* the exception that left select_questions
    slot_calls,     \* calls to the generative service made for the last slot
    sec_i,          \* index of the section being filled
    q_i,            \* index of the next slot in that section
    \* ---- content-plan synthesizer (generate_blueprint) ----
    paper_pattern,     \* the structural pattern handed to generate_blueprint
    attempt,           \* loop variable of the retry loop
    llm_calls,         \* calls made to the generative service
    bp_pc,             \* "off" | "loop" | "returned" | "raised"
    bp_result,         \* the plan returned
    bp_path,           \* "direct" | "repaired" | "fallback": where the plan came from
    validation_errors, \* what validate_blueprint reported for the plan returned
    bp_validated,      \* validate_blueprint was run on the plan returned
    bp_error,          \* the exception that left generate_blueprint
    \* ---- document validator (verify_question_paper) ----
    vf_paper,       \* the drafted paper
    vf_pattern,     \* the structural pattern
    bloom_coverage, \* the cognitive-level requirement handed in
    det,            \* outcome of the deterministic checks
    judge_attempt,  \* loop variable of llm_judge's retry loop
    judge_calls,    \* calls made to the judging service
    judge_log,      \* what each call to the judging service gave, in order
    llm_result,     \* what the judge gave, or that it failed
    vf_result,  \* the verdict returned (scores in hundredths)
    vf_pc,          \* "off" | "checks" | "judge" | "rate" | "returned"
    \* ---- response repair (fix_incomplete_json) ----
    json_str,       \* the response text, as a sequence of structural characters
    fixed_json,     \* what fix_incomplete_json returned
    fix_pc          \* "off" | "call" | "returned"

wfVars == <<phase, kind, sid, node, result, state, store, folders, trace,
            connections, alive, received, response, requests, connects, bloom_form>>

selVars == <<blueprint, pyq_bank, used_pyq_ids, draft_sections, draft_questions,
             stats, sel_pc, sec_i, q_i, sel_error, slot_calls>>

bpVars == <<paper_pattern, attempt, llm_calls, bp_pc, bp_result, bp_path,
            validation_errors, bp_validated, bp_error>>

vfVars == <<vf_paper, vf_pattern, bloom_coverage, det, judge_attempt, judge_calls,
            judge_log, llm_result, vf_result, vf_pc>>

fixVars == <<json_str, fixed_json, fix_pc>>

vars == <<wfVars, selVars, bpVars, vfVars, fixVars>>

\* what each component leaves alone
NotWorkflow == <<selVars, bpVars, vfVars, fixVars>>
NotSelect == <<wfVars, bpVars, vfVars, fixVars>>
NotBlueprint == <<wfVars, selVars, vfVars, fixVars>>
NotVerify == <<wfVars, selVars, bpVars, fixVars>>
NotRepair == <<wfVars, selVars, bpVars, vfVars>>

\* ------------------------------------------------------------------ bounds
MaxRequests == 3
MaxConnects == 1

Sessions == {"s1", "s2"}

\* ------------------------------------------------------------ side effects
Progress(step, status, progress) ==
    [type |-> "progress", step |-> step, status |-> status, progress |-> progress,
     success |-> TRUE, data |-> ""]

Log(step, level) ==
    [type |-> "log", step |-> step, status |-> level, progress |-> 0,
     success |-> TRUE, data |-> ""]

CompletionMsg(step, success, data) ==
    [type |-> "completion", step |-> step, status |-> "", progress |-> 0,
     success |-> success, data |-> data]

\* the node's external call came back: status holds what it returned
\* ("raise" when it threw)
Returned(step, out) ==
    [type |-> "call", step |-> step, status |-> out, progress |-> 0,
     success |-> out # "raise", data |-> ""]

\* a file write: status holds the file name, data the content written
Save(step, file, content) ==
    [type |-> "save", step |-> step, status |-> file, progress |-> 0,
     success |-> TRUE, data |-> content]

IsChannelMsg(e) == e.type \in {"progress", "log", "completion"}

RECURSIVE SelectSeqBy(_, _)
SelectSeqBy(s, types) ==
    IF s = <<>> THEN <<>>
    ELSE IF Head(s).type \in types
         THEN <<Head(s)>> \o SelectSeqBy(Tail(s), types)
         ELSE SelectSeqBy(Tail(s), types)

ChannelMsgs(evs) == SelectSeqBy(evs, {"progress", "log", "completion"})

\* a manager that hands every message to every registered socket
Deliver_broadcast(conns, live, rcv, session, evs) ==
    [s \in DOMAIN rcv |->
       IF s \in conns /\ s \in live THEN rcv[s] \o ChannelMsgs(evs) ELSE rcv[s]]

\* ConnectionManager.send_progress / send_log / send_completion: a message is
\* handed to the subscriber's socket only if the session id is in connections;
\* a send on a socket whose peer has gone throws, and the exception is swallowed
Deliver(conns, live, rcv, session, evs) ==
    IF session \in conns /\ session \in live
    THEN [rcv EXCEPT ![session] = @ \o ChannelMsgs(evs)]
    ELSE rcv

\* the files a run of side effects leaves in a session folder
RECURSIVE ApplySaves(_, _)
ApplySaves(files, evs) ==
    IF evs = <<>> THEN files
    ELSE LET e == Head(evs)
         IN  ApplySaves(IF e.type = "save"
                        THEN [files EXCEPT ![e.status] = e.data]
                        ELSE files,
                        Tail(evs))

Files == {"syllabus_raw.txt", "syllabus.json", "pyqs_raw.txt", "pyqs.json",
          "blueprint.json", "blueprint_verification.json", "draft_paper.json",
          "paper_verification.json", "final_paper.json", "session_summary.json"}

EmptyFolder == [f \in Files |-> "absent"]

\* ------------------------------------------------------------------- nodes
\* NodeDef: pre = side effects before the external call, outcomes = what the
\* call can do ("raise" = it throws), post = side effects after it returned
\* `out`, update = the partial state the node returns, fails = the node throws
\* after its post effects.
NodeDef(pre, outcomes, post, update, fails) ==
    [pre |-> pre, outcomes |-> outcomes, post |-> post, update |-> update,
     fails |-> fails]

NoUpdate == [key |-> "none", value |-> "None"]

syllabus_fetch(st, out, folderExists) ==
    LET n == "syllabus_fetch"
        pdf == st.syllabus_text = "None"
    IN  NodeDef(
          <<Progress(n, "running", 0), Log(n, "info")>>
            \o (IF pdf THEN <<Progress(n, "running", 25)>> ELSE <<>>),
          IF pdf THEN {"extracted", "raise"} ELSE {"provided"},
          (IF pdf THEN <<Progress(n, "running", 50)>> ELSE <<>>)
            \o <<Progress(n, "running", 75),
                 Save(n, "syllabus_raw.txt", "text"),
                 Progress(n, "completed", 100), Log(n, "info")>>,
          [key |-> "syllabus_text", value |-> "text"],
          FALSE)

syllabus_format(st, out, folderExists) ==
    LET n == "syllabus_format"
        syllabus_json == IF out = "dict" THEN "syllabus_dict" ELSE "syllabus_placeholder"
    IN  NodeDef(
          <<Progress(n, "running", 0), Log(n, "info"), Progress(n, "running", 25)>>,
          {"dict", "none"},
          (IF out = "dict" THEN <<Progress(n, "running", 75)>> ELSE <<Log(n, "warning")>>)
            \o <<Progress(n, "running", 90),
                 Save(n, "syllabus.json", syllabus_json),
                 Progress(n, "completed", 100), Log(n, "info"),
                 CompletionMsg(n, TRUE, syllabus_json)>>,
          [key |-> "syllabus", value |-> syllabus_json],
          FALSE)

pyqs_fetch(st, out, folderExists) ==
    LET n == "pyqs_fetch"
        pdf == st.pyqs_text = "None"
        pyqs_text == IF out = "empty" THEN "" ELSE "text"
    IN  NodeDef(
          <<Progress(n, "running", 0), Log(n, "info"), Log(n, "info")>>
            \o (IF pdf THEN <<Progress(n, "running", 25)>> ELSE <<>>),
          IF pdf THEN {"extracted", "empty", "raise"} ELSE {"provided"},
          (IF pdf THEN <<Progress(n, "running", 50)>> ELSE <<>>)
            \o (IF pyqs_text = ""
                THEN <<Log(n, "warning"), Progress(n, "completed", 100)>>
                ELSE IF folderExists
                THEN <<Progress(n, "running", 75),
                       Save(n, "pyqs_raw.txt", "text"), Log(n, "info"),
                       Progress(n, "completed", 100)>>
                ELSE <<Progress(n, "running", 75)>>),
          [key |-> "pyqs_text", value |-> pyqs_text],
          pyqs_text # "" /\ ~folderExists)

pyqs_format_node(st, out, folderExists) ==
    LET n == "pyqs_format"
        pyqs_dict == IF out = "questions" THEN "pyqs_dict" ELSE "pyqs_error_dict"
    IN  NodeDef(
          <<Progress(n, "running", 0), Log(n, "info"), Progress(n, "running", 25)>>,
          IF st.pyqs_text = "" THEN {"error"} ELSE {"questions", "error"},
          <<Progress(n, "running", 75), Progress(n, "running", 90),
            Save(n, "pyqs.json", pyqs_dict),
            Progress(n, "completed", 100), Log(n, "info"),
            CompletionMsg(n, TRUE, pyqs_dict)>>,
          [key |-> "pyqs", value |-> pyqs_dict],
          FALSE)

blueprint_build_node(st, out, folderExists) ==
    LET n == "blueprint_build"
    IN  NodeDef(
          <<Progress(n, "running", 0), Log(n, "info"), Progress(n, "running", 20),
            Progress(n, "running", 40), Log(n, "info")>>,
          {"dict", "raise"},
          <<Log(n, "info"), Progress(n, "running", 80),
            Save(n, "blueprint.json", "blueprint_dict"), Log(n, "info"),
            Progress(n, "completed", 100)>>,
          [key |-> "blueprint", value |-> "blueprint_dict"],
          FALSE)

\* blueprint_verify_node writing a pending verdict before it calls the critic
blueprint_verify_node_early(st, out, folderExists) ==
    LET n == "blueprint_verify"
        blueprint_verdict == IF out = "dict" THEN "critique_dict" ELSE "verdict_placeholder"
    IN  NodeDef(
          <<Progress(n, "running", 0), Log(n, "info"), Progress(n, "running", 30),
            Save(n, "blueprint_verification.json", "verdict_placeholder"),
            Progress(n, "running", 60), Log(n, "info")>>,
          {"dict", "nondict", "raise"},
          <<Log(n, "info"), Log(n, IF out = "dict" THEN "info" ELSE "warning"),
            Progress(n, "running", 90),
            Save(n, "blueprint_verification.json", blueprint_verdict), Log(n, "info"),
            Progress(n, "completed", 100)>>,
          [key |-> "blueprint_verdict", value |-> blueprint_verdict],
          FALSE)

blueprint_verify_node(st, out, folderExists) ==
    LET n == "blueprint_verify"
        blueprint_verdict == IF out = "dict" THEN "critique_dict" ELSE "verdict_placeholder"
    IN  NodeDef(
          <<Progress(n, "running", 0), Log(n, "info"), Progress(n, "running", 30),
            Progress(n, "running", 60), Log(n, "info")>>,
          {"dict", "nondict", "raise"},
          <<Log(n, "info"), Log(n, IF out = "dict" THEN "info" ELSE "warning"),
            Progress(n, "running", 90),
            Save(n, "blueprint_verification.json", blueprint_verdict), Log(n, "info"),
            Progress(n, "completed", 100)>>,
          [key |-> "blueprint_verdict", value |-> blueprint_verdict],
          FALSE)

\* question_select_node without its save_json_data call
question_select_node_nosave(st, out, folderExists) ==
    LET n == "question_select"
    IN  NodeDef(
          <<Progress(n, "running", 0), Log(n, "info"), Progress(n, "running", 20),
            Log(n, "info"), Progress(n, "running", 40), Log(n, "info")>>,
          {"dict", "raise"},
          <<Log(n, "info"), Progress(n, "running", 80), Log(n, "info"),
            Progress(n, "completed", 100)>>,
          [key |-> "draft_paper", value |-> "draft_dict"],
          FALSE)

question_select_node(st, out, folderExists) ==
    LET n == "question_select"
    IN  NodeDef(
          <<Progress(n, "running", 0), Log(n, "info"), Progress(n, "running", 20),
            Log(n, "info"), Progress(n, "running", 40), Log(n, "info")>>,
          {"dict", "raise"},
          <<Log(n, "info"), Progress(n, "running", 80),
            Save(n, "draft_paper.json", "draft_dict"), Log(n, "info"),
            Progress(n, "completed", 100)>>,
          [key |-> "draft_paper", value |-> "draft_dict"],
          FALSE)

\* a validator stage that ends the run on a REJECTED verdict
paper_verify_node_halting(st, out, folderExists) ==
    LET n == "paper_verify"
        verdict == IF out = "ACCEPTED" THEN "verdict_ACCEPTED" ELSE "verdict_REJECTED"
    IN  NodeDef(
          <<Progress(n, "running", 0), Log(n, "info"), Progress(n, "running", 25),
            Progress(n, "running", 50), Log(n, "info")>>,
          {"ACCEPTED", "REJECTED", "raise"},
          <<Log(n, "info"), Log(n, "info"), Progress(n, "running", 80),
            Save(n, "paper_verification.json", verdict), Log(n, "info"),
            Progress(n, "completed", 100)>>,
          [key |-> "paper_verdict", value |-> verdict],
          out = "REJECTED")

paper_verify_node(st, out, folderExists) ==
    LET n == "paper_verify"
        paper_verdict == IF out = "ACCEPTED" THEN "verdict_ACCEPTED" ELSE "verdict_REJECTED"
    IN  NodeDef(
          <<Progress(n, "running", 0), Log(n, "info"), Progress(n, "running", 25),
            Progress(n, "running", 50), Log(n, "info")>>,
          {"ACCEPTED", "REJECTED", "raise"},
          <<Log(n, "info"), Log(n, "info"), Progress(n, "running", 80),
            Save(n, "paper_verification.json", paper_verdict), Log(n, "info"),
            Progress(n, "completed", 100)>>,
          [key |-> "paper_verdict", value |-> paper_verdict],
          FALSE)

\* final_generate_node announcing completion before its last progress event
final_generate_node_early(st, out, folderExists) ==
    LET n == "final_generate"
    IN  NodeDef(
          <<Progress(n, "running", 0), Log(n, "info"), Progress(n, "running", 30)>>,
          {"assembled"},
          <<Save(n, "final_paper.json", st.draft_paper), Log(n, "info"),
            Progress(n, "running", 60),
            Save(n, "session_summary.json", st.paper_verdict), Log(n, "info"),
            Progress(n, "running", 90), Log(n, "info"), Log(n, "info"),
            CompletionMsg(n, TRUE, st.paper_verdict),
            Progress(n, "completed", 100)>>,
          [key |-> "final_path", value |-> "final_question_paper.pdf"],
          FALSE)

final_generate_node(st, out, folderExists) ==
    LET n == "final_generate"
    IN  NodeDef(
          <<Progress(n, "running", 0), Log(n, "info"), Progress(n, "running", 30)>>,
          {"assembled"},
          <<Save(n, "final_paper.json", st.draft_paper), Log(n, "info"),
            Progress(n, "running", 60),
            Save(n, "session_summary.json", st.paper_verdict), Log(n, "info"),
            Progress(n, "running", 90), Log(n, "info"), Log(n, "info"),
            Progress(n, "completed", 100),
            CompletionMsg(n, TRUE, st.paper_verdict)>>,
          [key |-> "final_path", value |-> "final_question_paper.pdf"],
          FALSE)

Node(name, st, out, folderExists) ==
    CASE name = "syllabus_fetch"   -> syllabus_fetch(st, out, folderExists)
      [] name = "syllabus_format"  -> syllabus_format(st, out, folderExists)
      [] name = "pyqs_fetch"       -> pyqs_fetch(st, out, folderExists)
      [] name = "pyqs_format"      -> pyqs_format_node(st, out, folderExists)
      [] name = "blueprint_build"  -> blueprint_build_node(st, out, folderExists)
      [] name = "blueprint_verify" -> blueprint_verify_node(st, out, folderExists)
      [] name = "question_select"  -> question_select_node(st, out, folderExists)
      [] name = "paper_verify"     -> paper_verify_node(st, out, folderExists)
      [] name = "final_generate"   -> final_generate_node(st, out, folderExists)

\* build_graph / the three workflows: a linear chain of nodes
Chain(k) ==
    CASE k = "analyze_syllabus" -> <<"syllabus_fetch", "syllabus_format">>
      [] k = "analyze_pyqs"     -> <<"pyqs_fetch", "pyqs_format">>
      [] k = "generate_paper"   -> <<"blueprint_build", "blueprint_verify",
                                     "question_select", "paper_verify",
                                     "final_generate">>

Kinds == {"analyze_syllabus", "analyze_pyqs", "generate_paper"}

\* the node's artifact file in the session store
Artifact(name) ==
    CASE name = "syllabus_fetch"   -> "syllabus_raw.txt"
      [] name = "syllabus_format"  -> "syllabus.json"
      [] name = "pyqs_fetch"       -> "pyqs_raw.txt"
      [] name = "pyqs_format"      -> "pyqs.json"
      [] name = "blueprint_build"  -> "blueprint.json"
      [] name = "blueprint_verify" -> "blueprint_verification.json"
      [] name = "question_select"  -> "draft_paper.json"
      [] name = "paper_verify"     -> "paper_verification.json"
      [] name = "final_generate"   -> "final_paper.json"

initial_state ==
    [syllabus_text |-> "None", syllabus |-> "None", pyqs_text |-> "None",
     pyqs |-> "None", blueprint |-> "None", blueprint_verdict |-> "None",
     draft_paper |-> "None", paper_verdict |-> "None", final_path |-> "None",
     bloom_taxanomy_levels |-> <<>>, none |-> "None"]

NoReceived == [s \in Sessions |-> <<>>]

CurrentNode == Chain(kind)[node]

\* ---------------------------------------------------------------- requests
\* StateGraph.ainvoke on a fresh initial state
Invoke(k, s, st, dirs) ==
    /\ phase' = "start"
    /\ kind' = k
    /\ sid' = s
    /\ node' = 1
    /\ result' = "none"
    /\ state' = st
    /\ folders' = dirs
    /\ trace' = <<>>
    /\ received' = NoReceived
    /\ response' = "pending"
    /\ requests' = requests + 1
    /\ UNCHANGED <<store, connections, alive, connects>>
    /\ UNCHANGED NotWorkflow

\* a form field that was not sent (None)
Unset == 0 - 1000

\* bloom_remember .. bloom_create, none of them sent
NoForm == <<Unset, Unset, Unset, Unset, Unset, Unset>>

\* forms a client can send: nothing, percentages summing to 100, to 90, to
\* 120, six zeros, and two values cancelling out
BloomForms ==
    { NoForm,
      <<20, 30, 30, 20, Unset, Unset>>,
      <<50, 40, Unset, Unset, Unset, Unset>>,
      <<60, 60, Unset, Unset, Unset, Unset>>,
      <<0, 0, 0, 0, 0, 0>>,
      <<50, 0 - 50, Unset, Unset, Unset, Unset>> }

DefaultBloom == <<20, 30, 30, 20, 0, 0>>

\* bloom_x or 0
or0(v) == IF v = Unset THEN 0 ELSE v

\* any([...]): some field is neither None nor 0
any_bloom(form) == \E i \in 1..Len(form) : form[i] # Unset /\ form[i] # 0

total_bloom(form) ==
    or0(form[1]) + or0(form[2]) + or0(form[3]) + or0(form[4]) + or0(form[5])
    + or0(form[6])

bloom_rejected_never(form) == FALSE

\* generate_paper raises HTTPException(400) for the form
bloom_rejected(form) ==
    any_bloom(form) /\ total_bloom(form) # 100 /\ total_bloom(form) # 0

\* bloom_levels as the endpoint hands them to generate_paper_workflow and as
\* the workflow puts them into the initial state
bloom_levels(form) ==
    LET parsed == IF any_bloom(form) THEN [i \in 1..6 |-> or0(form[i])]
                  ELSE DefaultBloom
    IN  IF parsed[1] + parsed[2] + parsed[3] + parsed[4] + parsed[5] + parsed[6] = 0
        THEN DefaultBloom
        ELSE parsed

\* the request is answered without any node having run
Reject(k, s, code, dirs) ==
    /\ phase' = "idle"
    /\ kind' = k
    /\ sid' = s
    /\ node' = 0
    /\ result' = "none"
    /\ state' = initial_state
    /\ folders' = dirs
    /\ trace' = <<>>
    /\ received' = NoReceived
    /\ response' = code
    /\ requests' = requests + 1
    /\ UNCHANGED <<store, connections, alive, connects>>
    /\ UNCHANGED NotWorkflow

\* POST /analyze-syllabus with a text or an uploaded file
analyze_syllabus(s, upload) ==
    /\ phase = "idle"
    /\ requests < MaxRequests
    /\ Invoke("analyze_syllabus", s,
              [initial_state EXCEPT !.syllabus_text = IF upload THEN "None" ELSE "text"],
              IF upload THEN folders \cup {s} ELSE folders)
    /\ bloom_form' = NoForm

\* POST /analyze-pyqs
analyze_pyqs(s, syllabus_session_id, upload) ==
    /\ phase = "idle"
    /\ requests < MaxRequests
    /\ LET dirs == IF upload THEN folders \cup {s} ELSE folders
           syllabus_data == store[syllabus_session_id]["syllabus.json"]
       IN  \/ /\ syllabus_session_id \notin folders
              /\ Reject("analyze_pyqs", s, "404", folders)
           \/ /\ syllabus_session_id \in folders
              /\ syllabus_data = "absent"
              /\ Reject("analyze_pyqs", s, "500", dirs)
           \/ /\ syllabus_session_id \in folders
              /\ syllabus_data # "absent"
              /\ Invoke("analyze_pyqs", s,
                        [initial_state EXCEPT
                           !.pyqs_text = IF upload THEN "None" ELSE "text",
                           !.syllabus = syllabus_data],
                        dirs)
    /\ bloom_form' = NoForm

\* POST /generate-paper
generate_paper(s, syllabus_session_id, pyqs_session_id, form) ==
    /\ phase = "idle"
    /\ requests < MaxRequests
    /\ bloom_form' = form
    /\ LET syllabus_data == store[syllabus_session_id]["syllabus.json"]
           pyqs_data == store[pyqs_session_id]["pyqs.json"]
       IN  \/ /\ {syllabus_session_id, pyqs_session_id} \cap (Sessions \ folders) # {}
              /\ Reject("generate_paper", s, "404", folders)
           \/ /\ {syllabus_session_id, pyqs_session_id} \subseteq folders
              /\ bloom_rejected(form)
              /\ Reject("generate_paper", s, "400", folders)
           \/ /\ {syllabus_session_id, pyqs_session_id} \subseteq folders
              /\ ~bloom_rejected(form)
              /\ "absent" \in {syllabus_data, pyqs_data}
              /\ Reject("generate_paper", s, "500", folders)
           \/ /\ {syllabus_session_id, pyqs_session_id} \subseteq folders
              /\ ~bloom_rejected(form)
              /\ "absent" \notin {syllabus_data, pyqs_data}
              /\ Invoke("generate_paper", s,
                        [initial_state EXCEPT !.syllabus = syllabus_data,
                                              !.pyqs = pyqs_data,
                                              !.bloom_taxanomy_levels = bloom_levels(form)],
                        folders)

\* ------------------------------------------------------------ node stepping
HasSave(evs) == \E i \in 1..Len(evs) : evs[i].type = "save"

\* an error handler that removes the session folder of the failed run
RaiseCleanup(files) ==
    /\ phase' = "idle"
    /\ response' = "500"
    /\ store' = [files EXCEPT ![sid] = EmptyFolder]
    /\ UNCHANGED <<kind, sid, node, result, state, requests, connections, alive, connects,
               bloom_form>>

\* an exception leaves the node, the graph and the workflow: the HTTP handler
\* answers 500, nothing is published and the files written so far stay
Raise(files) ==
    /\ phase' = "idle"
    /\ response' = "500"
    /\ store' = files
    /\ UNCHANGED <<kind, sid, node, result, state, requests, connections, alive, connects,
               bloom_form>>

\* the node runs up to its external call
NodeStart ==
    /\ phase = "start"
    /\ LET d == Node(CurrentNode, state, "none", sid \in folders)
       IN  /\ trace' = trace \o d.pre
           /\ received' = Deliver(connections, alive, received, sid, d.pre)
    /\ phase' = "call"
    /\ UNCHANGED <<kind, sid, node, result, state, store, folders, response,
                   requests, connections, alive, connects, bloom_form>>
    /\ UNCHANGED NotWorkflow

\* the external call returns or throws
NodeCall ==
    /\ phase = "call"
    /\ \E out \in Node(CurrentNode, state, "none", sid \in folders).outcomes :
         /\ trace' = Append(trace, Returned(CurrentNode, out))
         /\ \/ /\ out = "raise"
               /\ Raise(store)
               /\ UNCHANGED <<folders, received>>
            \/ /\ out # "raise"
               /\ result' = out
               /\ phase' = "finish"
               /\ UNCHANGED <<kind, sid, node, state, store, folders, received,
                              response, requests, connections, alive, connects, bloom_form>>
    /\ UNCHANGED NotWorkflow

\* the node persists its artifact, reports, and the graph follows its edge
NodeFinish ==
    /\ phase = "finish"
    /\ LET d == Node(CurrentNode, state, result, sid \in folders)
       IN  /\ trace' = trace \o d.post
           /\ received' = Deliver(connections, alive, received, sid, d.post)
           /\ folders' = IF HasSave(d.post) THEN folders \cup {sid} ELSE folders
           /\ \/ /\ d.fails
                 /\ Raise([store EXCEPT ![sid] = ApplySaves(@, d.post)])
              \/ /\ ~d.fails
                 /\ store' = [store EXCEPT ![sid] = ApplySaves(@, d.post)]
                 /\ state' = [state EXCEPT ![d.update.key] = d.update.value]
                 /\ \/ /\ node < Len(Chain(kind))
                       /\ node' = node + 1
                       /\ phase' = "start"
                       /\ UNCHANGED response
                    \/ /\ node = Len(Chain(kind))
                       /\ phase' = "idle"
                       /\ response' = "200"
                       /\ UNCHANGED node
                 /\ UNCHANGED <<kind, sid, result, requests, connections, alive, connects, bloom_form>>
    /\ UNCHANGED NotWorkflow

\* ---------------------------------------------------------- progress channel
\* ConnectionManager.connect: the socket is accepted and registered
connect(s) ==
    /\ connects < MaxConnects
    /\ connects' = connects + 1
    /\ connections' = connections \cup {s}
    /\ alive' = alive \cup {s}
    /\ UNCHANGED <<phase, kind, sid, node, result, state, store, folders, trace,
                   received, response, requests, bloom_form>>
    /\ UNCHANGED NotWorkflow

\* the subscriber goes away; websocket_logs never unregisters the socket
SocketClosed(s) ==
    /\ s \in alive
    /\ alive' = alive \ {s}
    /\ UNCHANGED <<phase, kind, sid, node, result, state, store, folders, trace,
                   connections, received, response, requests, connects, bloom_form>>
    /\ UNCHANGED NotWorkflow

\* ------------------------------------------------------------ slot resolver
MaxBank == 3
MaxSlots == 3
MaxSections == 2

\* a key the dict does not carry
Absent == "<absent>"

None == "None"

\* dict.get(key, default)
get(value, default) == IF value = Absent THEN default ELSE value

\* str.lower().strip(), on the strings that occur
normalize(text) ==
    CASE text \in {"Sorting", " sorting ", "SORTING"} -> "sorting"
      [] text \in {"Quick Sort", "quick sort "}       -> "quick sort"
      [] text \in {"Apply", "apply"}                  -> "apply"
      [] text = "Remember"                            -> "remember"
      [] text = "Graphs"                              -> "graphs"
      [] text = "BFS"                                 -> "bfs"
      [] OTHER                                        -> text

\* records of the historical bank: two spellings of one topic, two marks,
\* two cognitive levels, one identifier carried by two records, one record of
\* another topic, and one record as the bank-formatting stage emits it
PyqCatalogue ==
    { [id |-> "p1", text |-> "t1", topic |-> " sorting ", subtopic |-> "quick sort ",
       marks |-> 5, bloom_level |-> "Apply"],
      [id |-> "p2", text |-> "t2", topic |-> "Sorting", subtopic |-> "Quick Sort",
       marks |-> 10, bloom_level |-> "apply"],
      [id |-> "p3", text |-> "t3", topic |-> "SORTING", subtopic |-> "Quick Sort",
       marks |-> 5, bloom_level |-> "Remember"],
      [id |-> "p1", text |-> "t4", topic |-> "Sorting", subtopic |-> "Quick Sort",
       marks |-> 5, bloom_level |-> "Apply"],
      [id |-> "p5", text |-> "t5", topic |-> "Graphs", subtopic |-> "BFS",
       marks |-> 5, bloom_level |-> "Apply"],
      [id |-> Absent, text |-> Absent, topic |-> "Sorting", subtopic |-> "Quick Sort",
       marks |-> 5, bloom_level |-> Absent] }

\* slots of the content plan
SlotCatalogue ==
    { [question_number |-> "1a", module |-> "Module 1", topic |-> "Sorting",
       subtopic |-> "Quick Sort", marks |-> 5, bloom_level |-> "Apply", is_pyq |-> TRUE],
      [question_number |-> "1b", module |-> "Module 1", topic |-> "Sorting",
       subtopic |-> "Quick Sort", marks |-> 10, bloom_level |-> "Apply", is_pyq |-> TRUE],
      [question_number |-> "2a", module |-> "Module 1", topic |-> "Sorting",
       subtopic |-> "Quick Sort", marks |-> 5, bloom_level |-> "Apply", is_pyq |-> FALSE] }

SectionNames == <<"Section A", "Section B", "Section C", "Section D">>

SeqsUpTo(S, n) == UNION {[1..k -> S] : k \in 0..n}

RECURSIVE SumLen(_)
SumLen(ss) == IF ss = <<>> THEN 0 ELSE Len(Head(ss)) + SumLen(Tail(ss))

Blueprints ==
    { [sections |-> [i \in 1..Len(qs) |->
                       [section_name |-> SectionNames[i], questions |-> qs[i]]]] :
      qs \in {x \in SeqsUpTo(SeqsUpTo(SlotCatalogue, MaxSlots), MaxSections) :
                SumLen(x) <= MaxSlots} }

Banks == SeqsUpTo(PyqCatalogue, MaxBank)

\* match_level_1 that forgets to compare the marks
match_level_1_nomarks(pyq, topic, subtopic, marks, bloom_level) ==
    /\ normalize(get(pyq.topic, "")) = normalize(topic)
    /\ normalize(get(pyq.subtopic, "")) = normalize(subtopic)
    /\ normalize(get(pyq.bloom_level, "")) = normalize(bloom_level)

match_level_1(pyq, topic, subtopic, marks, bloom_level) ==
    /\ normalize(get(pyq.topic, "")) = normalize(topic)
    /\ normalize(get(pyq.subtopic, "")) = normalize(subtopic)
    /\ pyq.marks = marks
    /\ normalize(get(pyq.bloom_level, "")) = normalize(bloom_level)

\* match_level_2 that never matches
match_level_2_never(pyq, topic, subtopic, bloom_level) == FALSE

match_level_2(pyq, topic, subtopic, bloom_level) ==
    /\ normalize(get(pyq.topic, "")) = normalize(topic)
    /\ normalize(get(pyq.subtopic, "")) = normalize(subtopic)
    /\ normalize(get(pyq.bloom_level, "")) = normalize(bloom_level)

match_level_3_never(pyq, topic, subtopic) == FALSE

match_level_3(pyq, topic, subtopic) ==
    /\ normalize(get(pyq.topic, "")) = normalize(topic)
    /\ normalize(get(pyq.subtopic, "")) = normalize(subtopic)

KeyError == 0 - 1

\* find_match that does not skip the records already used
find_match_reuse(bank, used, level, criteria) ==
    LET RECURSIVE scan(_)
        scan(i) ==
            IF i > Len(bank) THEN 0
            ELSE IF bank[i].id = Absent THEN KeyError
            ELSE IF level = 1 /\ match_level_1(bank[i], criteria.topic, criteria.subtopic,
                                               criteria.marks, criteria.bloom_level) THEN i
            ELSE IF level = 2 /\ match_level_2(bank[i], criteria.topic, criteria.subtopic,
                                               criteria.bloom_level) THEN i
            ELSE IF level = 3 /\ match_level_3(bank[i], criteria.topic, criteria.subtopic) THEN i
            ELSE scan(i + 1)
    IN  scan(1)

\* find_match: the index of the first record whose id is not used and that
\* matches at `level`, 0 for None, KeyError when pyq["id"] hits a record
\* without an id
find_match(bank, used, level, criteria) ==
    LET RECURSIVE scan(_)
        scan(i) ==
            IF i > Len(bank) THEN 0
            ELSE IF bank[i].id = Absent THEN KeyError
            ELSE IF bank[i].id \in used THEN scan(i + 1)
            ELSE IF level = 1 /\ match_level_1(bank[i], criteria.topic, criteria.subtopic,
                                               criteria.marks, criteria.bloom_level) THEN i
            ELSE IF level = 2 /\ match_level_2(bank[i], criteria.topic, criteria.subtopic,
                                               criteria.bloom_level) THEN i
            ELSE IF level = 3 /\ match_level_3(bank[i], criteria.topic, criteria.subtopic) THEN i
            ELSE scan(i + 1)
    IN  scan(1)

rephrase_pyq_verbatim(pyq_text) == pyq_text

\* rephrase_pyq: the text the generative service returns for a record's text
rephrase_pyq(pyq_text) ==
    CASE pyq_text = "t1" -> "t1 rephrased"
      [] pyq_text = "t2" -> "t2 rephrased"
      [] pyq_text = "t3" -> "t3 rephrased"
      [] pyq_text = "t4" -> "t4 rephrased"
      [] pyq_text = "t5" -> "t5 rephrased"

\* generate_new_question
generate_new_question(bp_q) == "generated text"

\* a resolution counted as generated_new whatever the method
Selected_miscounted(text, method, counter, source) ==
    [raised |-> FALSE, selected_text |-> text, selection_method |-> method,
     counter |-> "generated_new", source_pyq_id |-> source, error |-> "none",
     calls |-> IF method = "pyq_exact" THEN 0 ELSE 1]

\* calls is the number of calls made to the generative service
Selected(text, method, counter, source) ==
    [raised |-> FALSE, selected_text |-> text, selection_method |-> method,
     counter |-> counter, source_pyq_id |-> source, error |-> "none",
     calls |-> IF method = "pyq_exact" THEN 0 ELSE 1]

Raised(error) ==
    [raised |-> TRUE, selected_text |-> None, selection_method |-> None,
     counter |-> None, source_pyq_id |-> None, error |-> error,
     calls |-> IF error = "TransportError" THEN 1 ELSE 0]

\* the body of the loop over a section's slots, up to the draft entry; llm is
\* what a call to the generative service does ("text" or "raise")
resolve(bank, used, bp_q, llm) ==
    LET fresh(method, counter) ==
            IF llm = "raise" THEN Raised("TransportError")
            ELSE Selected(generate_new_question(bp_q), method, counter, None)
        reuse(m, method, counter) ==
            IF bank[m].text = Absent THEN Raised("KeyError")
            ELSE IF llm = "raise" THEN Raised("TransportError")
            ELSE Selected(rephrase_pyq(bank[m].text), method, counter, bank[m].id)
        m1 == find_match(bank, used, 1, bp_q)
        m2 == find_match(bank, used, 2, bp_q)
        m3 == find_match(bank, used, 3, bp_q)
    IN  IF ~bp_q.is_pyq THEN fresh("generated_direct", "direct_generated")
        ELSE IF m1 = KeyError THEN Raised("KeyError")
        ELSE IF m1 > 0
             THEN IF bank[m1].text = Absent THEN Raised("KeyError")
                  ELSE Selected(bank[m1].text, "pyq_exact", "pyq_exact_match", bank[m1].id)
        ELSE IF m2 > 0 THEN reuse(m2, "pyq_rephrased_marks", "pyq_rephrased_marks")
        ELSE IF m3 > 0 THEN reuse(m3, "pyq_rephrased_bloom", "pyq_rephrased_bloom")
        ELSE fresh("generated_fallback", "generated_new")

CurrentSection == blueprint.sections[sec_i]

CurrentSlot == CurrentSection.questions[q_i]

\* a draft entry that loses the slot's marks
draft_q_unmarked(bp_q, r) ==
    [question_number |-> bp_q.question_number,
     module |-> bp_q.module, topic |-> bp_q.topic,
     subtopic |-> bp_q.subtopic, marks |-> 0,
     bloom_level |-> bp_q.bloom_level,
     question_text |-> r.selected_text,
     selection_method |-> r.selection_method,
     source_pyq_id |-> r.source_pyq_id,
     is_pyq_sourced |-> r.source_pyq_id # None]

\* the draft entry built from the slot and its resolution (the uuid is left out)
draft_q(bp_q, r) ==
    [question_number |-> bp_q.question_number,
     module |-> bp_q.module, topic |-> bp_q.topic,
     subtopic |-> bp_q.subtopic, marks |-> bp_q.marks,
     bloom_level |-> bp_q.bloom_level,
     question_text |-> r.selected_text,
     selection_method |-> r.selection_method,
     source_pyq_id |-> r.source_pyq_id,
     is_pyq_sourced |-> r.source_pyq_id # None]

NoStats ==
    [total_questions |-> 0, pyq_exact_match |-> 0, pyq_rephrased_marks |-> 0,
     pyq_rephrased_bloom |-> 0, generated_new |-> 0, direct_generated |-> 0]

\* one pass of the loop over the slots of a section
ResolveSlot ==
    /\ sel_pc = "slot"
    /\ sec_i <= Len(blueprint.sections)
    /\ q_i <= Len(CurrentSection.questions)
    /\ \E llm \in {"text", "raise"} :
         LET bp_q == CurrentSlot
             r == resolve(pyq_bank, used_pyq_ids, bp_q, llm)
             counted == [stats EXCEPT !.total_questions = @ + 1]
         IN  /\ slot_calls' = r.calls
             /\ sel_error' = r.error
             /\ IF r.raised
                THEN /\ sel_pc' = "raised"
                     /\ stats' = counted
                     /\ UNCHANGED <<used_pyq_ids, draft_questions, q_i>>
                ELSE /\ draft_questions' = Append(draft_questions, draft_q(bp_q, r))
                     /\ used_pyq_ids' = IF r.source_pyq_id # None
                                        THEN used_pyq_ids \cup {r.source_pyq_id}
                                        ELSE used_pyq_ids
                     /\ stats' = [counted EXCEPT ![r.counter] = @ + 1]
                     /\ q_i' = q_i + 1
                     /\ UNCHANGED sel_pc
    /\ UNCHANGED <<blueprint, pyq_bank, draft_sections, sec_i>>
    /\ UNCHANGED NotSelect

\* the section's slots are done: draft_sections.append
EndSection ==
    /\ sel_pc = "slot"
    /\ sec_i <= Len(blueprint.sections)
    /\ q_i > Len(CurrentSection.questions)
    /\ draft_sections' = Append(draft_sections,
                                [section_name |-> CurrentSection.section_name,
                                 questions |-> draft_questions])
    /\ draft_questions' = <<>>
    /\ sec_i' = sec_i + 1
    /\ q_i' = 1
    /\ UNCHANGED <<blueprint, pyq_bank, used_pyq_ids, stats, sel_pc, sel_error,
                   slot_calls>>
    /\ UNCHANGED NotSelect

\* all sections are done: the draft paper is built and returned
ReturnDraft ==
    /\ sel_pc = "slot"
    /\ sec_i > Len(blueprint.sections)
    /\ sel_pc' = "returned"
    /\ UNCHANGED <<blueprint, pyq_bank, used_pyq_ids, draft_sections, draft_questions,
                   stats, sec_i, q_i, sel_error, slot_calls>>
    /\ UNCHANGED NotSelect

draft_paper ==
    [sections |-> draft_sections, selection_stats |-> stats,
     used_pyq_ids |-> used_pyq_ids]

\* no request has been made
WorkflowOff ==
    /\ phase = "idle"
    /\ kind = "none"
    /\ sid = "none"
    /\ node = 0
    /\ result = "none"
    /\ state = initial_state
    /\ store = [s \in Sessions |-> EmptyFolder]
    /\ folders = {}
    /\ trace = <<>>
    /\ connections = {}
    /\ alive = {}
    /\ received = NoReceived
    /\ response = "none"
    /\ requests = 0
    /\ connects = 0
    /\ bloom_form = NoForm

\* select_questions is not running
SelectOff ==
    /\ blueprint = [sections |-> <<>>]
    /\ pyq_bank = <<>>
    /\ used_pyq_ids = {}
    /\ draft_sections = <<>>
    /\ draft_questions = <<>>
    /\ stats = NoStats
    /\ sel_pc = "off"
    /\ sel_error = "none"
    /\ slot_calls = 0
    /\ sec_i = 1
    /\ q_i = 1

\* ---------------------------------------------------- content-plan synthesizer
MaxTotalQuestions == 3

max_retries == 3

\* a numeric key the dict does not carry
NoNumber == 0 - 1

TotalMarksChoices == {10, 11}

\* generate_paper_workflow without custom sections: Section A gets half the
\* questions at 6 marks, Section B the rest at the floor of what is left
default_sections(total_marks, total_questions) ==
    LET section_a_count == total_questions \div 2
        section_b_count == total_questions - section_a_count
        section_a_marks == 6
        section_b_marks == (total_marks - (section_a_count * section_a_marks))
                             \div section_b_count
    IN  <<[section_name |-> "Section A", question_count |-> section_a_count,
           marks_per_question |-> section_a_marks],
          [section_name |-> "Section B", question_count |-> section_b_count,
           marks_per_question |-> section_b_marks]>>

\* section lists a client can post as paper_pattern
CustomSections ==
    { <<[section_name |-> "Section A", question_count |-> 2, marks_per_question |-> 5]>>,
      <<[section_name |-> "Section A", question_count |-> 1, marks_per_question |-> 5]>>,
      <<[section_name |-> "Section A", question_count |-> NoNumber,
         marks_per_question |-> NoNumber]>>,
      <<[section_name |-> Absent, question_count |-> 2, marks_per_question |-> 5]>> }

\* generate_paper_workflow: the qp_pattern of the initial state
Patterns ==
    { [total_marks |-> tm, total_questions |-> tq, sections |-> default_sections(tm, tq)] :
        tm \in TotalMarksChoices, tq \in 1..MaxTotalQuestions }
    \cup
    { [total_marks |-> 10, total_questions |-> 2, sections |-> cs] : cs \in CustomSections }

PlanSlot(marks, bloom_level) ==
    [question_number |-> "1a", module |-> "Module 1", topic |-> "Sorting",
     subtopic |-> "Quick Sort", marks |-> marks, bloom_level |-> bloom_level,
     is_pyq |-> TRUE, rationale |-> "r"]

PlanSection(has_questions, questions) ==
    [section_name |-> "Section A", section_description |-> "",
     has_questions |-> has_questions, questions |-> questions]

\* what json.loads can make of the service's answer
ParsedValues ==
    { [type |-> "list", has_sections |-> FALSE, sections |-> <<>>],
      [type |-> "dict", has_sections |-> FALSE, sections |-> <<>>],
      [type |-> "dict", has_sections |-> TRUE,
       sections |-> <<PlanSection(TRUE, <<PlanSlot(5, "Apply"), PlanSlot(5, "Apply")>>)>>],
      [type |-> "dict", has_sections |-> TRUE,
       sections |-> <<PlanSection(TRUE, <<PlanSlot(5, "Apply")>>)>>],
      [type |-> "dict", has_sections |-> TRUE,
       sections |-> <<PlanSection(TRUE, <<PlanSlot(6, Absent), PlanSlot(5, "Apply")>>)>>],
      [type |-> "dict", has_sections |-> TRUE,
       sections |-> <<PlanSection(FALSE, <<>>)>>],
      [type |-> "dict", has_sections |-> TRUE,
       sections |-> <<PlanSection(TRUE, <<PlanSlot(NoNumber, "Apply")>>)>>] }

\* the service's answer: "json" parses as it is, "truncated" parses only after
\* fix_incomplete_json, "unparseable" does not parse either way, and
\* "transport_error" is llm.invoke throwing
Responses ==
    { [form |-> f, value |-> v] : f \in {"json", "truncated"}, v \in ParsedValues }
    \cup
    { [form |-> f, value |-> [type |-> "none", has_sections |-> FALSE, sections |-> <<>>]] :
        f \in {"unparseable", "transport_error"} }

RECURSIVE SumMarks(_)
SumMarks(questions) ==
    IF questions = <<>> THEN 0 ELSE Head(questions).marks + SumMarks(Tail(questions))

RECURSIVE SumSections(_, _)
SumSections(sections, count) ==
    IF sections = <<>> THEN 0
    ELSE (IF count THEN Len(Head(sections).questions)
          ELSE SumMarks(Head(sections).questions))
         + SumSections(Tail(sections), count)

RECURSIVE MissingFields(_)
MissingFields(questions) ==
    IF questions = <<>> THEN <<>>
    ELSE (IF Absent \in {Head(questions).question_number, Head(questions).module,
                         Head(questions).topic, Head(questions).bloom_level}
          THEN <<"fields">> ELSE <<>>)
         \o MissingFields(Tail(questions))

RECURSIVE MissingInSections(_)
MissingInSections(sections) ==
    IF sections = <<>> THEN <<>>
    ELSE MissingFields(Head(sections).questions) \o MissingInSections(Tail(sections))

\* validate_blueprint: the list of errors, or the exception that
\* section['questions'] or q['marks'] throws
validate_blueprint(plan, pattern) ==
    IF \E i \in 1..Len(plan.sections) : ~plan.sections[i].has_questions
    THEN [raised |-> "KeyError questions", errors |-> <<>>]
    ELSE IF \E i \in 1..Len(plan.sections) :
              \E j \in 1..Len(plan.sections[i].questions) :
                plan.sections[i].questions[j].marks = NoNumber
    THEN [raised |-> "KeyError marks", errors |-> <<>>]
    ELSE [raised |-> "none",
          errors |->
            (IF SumSections(plan.sections, FALSE) # pattern.total_marks
             THEN <<"marks">> ELSE <<>>)
            \o (IF SumSections(plan.sections, TRUE) # pattern.total_questions
                THEN <<"questions">> ELSE <<>>)
            \o MissingInSections(plan.sections)]

getn(value, default) == IF value = NoNumber THEN default ELSE value

FallbackSection(section_pattern, marks) ==
    [section_name |-> section_pattern.section_name, section_description |-> "",
     has_questions |-> TRUE,
     questions |-> [i \in 1..getn(section_pattern.question_count, 1) |->
                      [question_number |-> "Q", module |-> "Module 1",
                       topic |-> "General Topic", subtopic |-> "General Subtopic",
                       marks |-> marks, bloom_level |-> "Understand",
                       is_pyq |-> FALSE, rationale |-> "Fallback"]]]

\* create_fallback_blueprint giving every slot the default 5 marks
create_fallback_blueprint_5(pattern) ==
    IF \E i \in 1..Len(pattern.sections) : pattern.sections[i].section_name = Absent
    THEN [raised |-> "KeyError section_name", sections |-> <<>>]
    ELSE [raised |-> "none",
          sections |-> [i \in 1..Len(pattern.sections) |->
                          FallbackSection(pattern.sections[i], 5)]]

\* create_fallback_blueprint: question_count slots of marks_per_question marks
\* for each section of the pattern
create_fallback_blueprint(pattern) ==
    IF \E i \in 1..Len(pattern.sections) : pattern.sections[i].section_name = Absent
    THEN [raised |-> "KeyError section_name", sections |-> <<>>]
    ELSE [raised |-> "none",
          sections |-> [i \in 1..Len(pattern.sections) |->
                          FallbackSection(pattern.sections[i],
                                          getn(pattern.sections[i].marks_per_question, 5))]]

NoPlan == [sections |-> <<>>]

BlueprintReturn(plan, path, errors, validated) ==
    /\ bp_pc' = "returned"
    /\ bp_result' = plan
    /\ bp_path' = path
    /\ validation_errors' = errors
    /\ bp_validated' = validated
    /\ UNCHANGED <<attempt, bp_error>>

BlueprintRaise(error) ==
    /\ bp_pc' = "raised"
    /\ bp_error' = error
    /\ UNCHANGED <<attempt, bp_result, bp_path, validation_errors, bp_validated>>

\* one pass of the retry loop of generate_blueprint
BlueprintAttempt ==
    /\ bp_pc = "loop"
    /\ attempt < max_retries
    /\ llm_calls' = llm_calls + 1
    /\ \E answer \in Responses :
         LET blueprint_json == answer.value
             plan == [sections |-> blueprint_json.sections]
             checked == validate_blueprint(plan, paper_pattern)
             fallback == create_fallback_blueprint(paper_pattern)
         IN  IF answer.form = "transport_error"
             THEN BlueprintRaise("TransportError")
             ELSE IF \/ answer.form = "unparseable"
                     \/ blueprint_json.type # "dict"
                     \/ ~blueprint_json.has_sections
             THEN \* json.JSONDecodeError or ValueError
                  IF attempt < max_retries - 1
                  THEN /\ attempt' = attempt + 1
                       /\ UNCHANGED <<bp_pc, bp_result, bp_path, validation_errors,
                                      bp_validated, bp_error>>
                  ELSE IF fallback.raised # "none"
                  THEN BlueprintRaise(fallback.raised)
                  ELSE BlueprintReturn([sections |-> fallback.sections], "fallback",
                                       <<>>, FALSE)
             ELSE IF checked.raised # "none"
             THEN BlueprintRaise(checked.raised)
             ELSE BlueprintReturn(plan,
                                  IF answer.form = "json" THEN "direct" ELSE "repaired",
                                  checked.errors, TRUE)
    /\ UNCHANGED paper_pattern
    /\ UNCHANGED NotBlueprint

\* generate_blueprint is not running
BlueprintOff ==
    /\ paper_pattern = [total_marks |-> 0, total_questions |-> 0, sections |-> <<>>]
    /\ attempt = 0
    /\ llm_calls = 0
    /\ bp_pc = "off"
    /\ bp_result = NoPlan
    /\ bp_path = "none"
    /\ validation_errors = <<>>
    /\ bp_validated = FALSE
    /\ bp_error = "none"

\* ------------------------------------------------------- document validator
judge_max_retries == 2

soft_total == 5

\* questions of a drafted paper
VQ(module, topic, marks, bloom_level, text) ==
    [question_number |-> "q", module |-> module, topic |-> topic,
     subtopic |-> "s", marks |-> marks, bloom_level |-> bloom_level,
     question_text |-> text]

Good1 == VQ("Module 1", "T1", 5, "Remember", "text")
Good2 == VQ("Module 2", "T2", 5, "Understand", "text")
Good3 == VQ("Module 3", "T3", 5, "Apply", "text")
Good4 == VQ("Module 4", "T4", 5, "Analyze", "text")

VSection(name, questions) == [section_name |-> name, questions |-> questions]

\* drafted papers: a sound one, one with a blank text, one with a wrong mark,
\* one repeating a topic, one overweighting a module, one a question short,
\* one split over two sections, one leaving the second section out
Papers ==
    { [sections |-> <<VSection("Section A", <<Good1, Good2, Good3, Good4>>)>>],
      [sections |-> <<VSection("Section A",
          <<Good1, Good2, Good3, VQ("Module 4", "T4", 5, "Analyze", "  ")>>)>>],
      [sections |-> <<VSection("Section A",
          <<Good1, Good2, Good3, VQ("Module 4", "T4", 3, "Analyze", "text")>>)>>],
      [sections |-> <<VSection("Section A",
          <<Good1, Good2, Good3, VQ("Module 4", "T1", 5, "Analyze", "text")>>)>>],
      [sections |-> <<VSection("Section A",
          <<Good1, Good2, Good3, VQ("Module 1", "T4", 5, "Analyze", "text")>>)>>],
      [sections |-> <<VSection("Section A", <<Good1, Good2, Good3>>)>>],
      [sections |-> <<VSection("Section A", <<Good1, Good2>>),
                      VSection("Section B", <<Good3, Good4>>)>>],
      [sections |-> <<VSection("Section A", <<Good1, Good2>>)>>] }

\* qp_pattern as generate_paper_workflow builds it; the weightage range is
\* held in percent (0.10 and 0.30 in the source)
VPattern(sections) ==
    [total_marks |-> 20, total_questions |-> 4,
     module_weightage_range |-> [min |-> 10, max |-> 30],
     allowed_marks_per_question |-> {2, 5, 6, 10, 15},
     sections |-> sections]

VerifyPatterns ==
    { VPattern(<<[section_name |-> "Section A", question_count |-> 4,
                  marks_per_question |-> 5]>>),
      VPattern(<<[section_name |-> "Section A", question_count |-> 2,
                  marks_per_question |-> 5],
                 [section_name |-> "Section B", question_count |-> 2,
                  marks_per_question |-> 5]>>) }

BloomLevels == {"Remember", "Understand", "Apply", "Analyze"}

Skewed == [l \in BloomLevels |-> IF l = "Remember" THEN 70 ELSE 10]

\* bloom_coverage: the session's dict of percentages as paper_verify_node
\* passes it (session_target; it has no required_distribution key), or a dict
\* with required_distribution (percent)
BloomCoverages ==
    { [has_required |-> FALSE, required_distribution |-> [l \in BloomLevels |-> 0],
       session_target |-> [l \in BloomLevels |-> 25]],
      [has_required |-> FALSE, required_distribution |-> [l \in BloomLevels |-> 0],
       session_target |-> Skewed],
      [has_required |-> TRUE, required_distribution |-> [l \in BloomLevels |-> 25],
       session_target |-> [l \in BloomLevels |-> 25]],
      [has_required |-> TRUE, required_distribution |-> Skewed,
       session_target |-> Skewed] }

\* what the judging service can answer
JudgeAnswers ==
    { [kind |-> "json", qualitative_scores |-> sc, qualitative_issues |-> <<"unclear">>,
       qualitative_suggestions |-> <<"reword">>] :
        sc \in {<<10, 10, 10, 10, 10>>, <<9, 9, 9, 9, 9>>, <<8, 8, 8, 8, 8>>,
                <<0, 0, 0, 0, 0>>, <<20, 20, 20, 20, 20>>,
                <<0 - 10, 0 - 10, 0 - 10, 0 - 10, 0 - 10>>, <<>>} }
    \cup
    { [kind |-> k, qualitative_scores |-> <<>>, qualitative_issues |-> <<>>,
       qualitative_suggestions |-> <<>>] :
        k \in {"malformed", "connection_error", "nondict"} }

RECURSIVE AllQuestions(_)
AllQuestions(sections) ==
    IF sections = <<>> THEN <<>>
    ELSE Head(sections).questions \o AllQuestions(Tail(sections))

RECURSIVE SumSeq(_)
SumSeq(xs) == IF xs = <<>> THEN 0 ELSE Head(xs) + SumSeq(Tail(xs))

MarksOf(questions) == [i \in 1..Len(questions) |-> questions[i].marks]

MarksWhere(questions, field, value) ==
    SumSeq([i \in 1..Len(questions) |->
              IF questions[i][field] = value THEN questions[i].marks ELSE 0])

\* str.strip() on the texts that occur
strip(text) == IF text \in {"", "  "} THEN "" ELSE text

check_marks_total(paper, pattern) ==
    SumSeq(MarksOf(AllQuestions(paper.sections))) = pattern.total_marks

check_question_count(paper, pattern) ==
    Len(AllQuestions(paper.sections)) = pattern.total_questions

\* iterates over the sections of the paper and looks each up in the pattern
check_section_structure(paper, pattern) ==
    \A i \in 1..Len(paper.sections) :
      LET section == paper.sections[i]
          named == {k \in 1..Len(pattern.sections) :
                      pattern.sections[k].section_name = section.section_name}
      IN  /\ named # {}
          /\ LET pat == pattern.sections[CHOOSE k \in named : \A m \in named : m <= k]
                 q_count == Len(section.questions)
             IN  /\ q_count = getn(pat.question_count, q_count)
                 /\ \A j \in 1..q_count :
                      pat.marks_per_question # NoNumber =>
                        section.questions[j].marks = pat.marks_per_question

check_allowed_marks(paper, pattern) ==
    LET allowed == pattern.allowed_marks_per_question
        qs == AllQuestions(paper.sections)
    IN  allowed = {} \/ \A i \in 1..Len(qs) : qs[i].marks \in allowed

check_module_weightage(paper, pattern) ==
    LET qs == AllQuestions(paper.sections)
        total_marks == SumSeq(MarksOf(qs))
        min_w == pattern.module_weightage_range.min
        max_w == pattern.module_weightage_range.max
    IN  /\ total_marks # 0
        /\ \A i \in 1..Len(qs) :
             LET marks == MarksWhere(qs, "module", qs[i].module)
             IN  min_w * total_marks <= 100 * marks /\ 100 * marks <= max_w * total_marks

Abs(x) == IF x < 0 THEN 0 - x ELSE x

\* check_bloom_distribution: [deviations, levels]; the score is
\* max(0, 1 - deviations / max(levels, 1)), and 1.0 when nothing is required
check_bloom_distribution(paper, coverage) ==
    IF ~coverage.has_required THEN [deviations |-> 0, levels |-> 1]
    ELSE LET qs == AllQuestions(paper.sections)
             total_marks == SumSeq(MarksOf(qs))
             required == coverage.required_distribution
             deviating == {l \in DOMAIN required :
                             IF total_marks = 0
                             THEN required[l] > 7
                             ELSE Abs(100 * MarksWhere(qs, "bloom_level", l)
                                      - required[l] * total_marks) > 7 * total_marks}
         IN  [deviations |-> Cardinality(deviating),
              levels |-> Cardinality(DOMAIN required)]

\* bloom_score >= 0.7
BloomPasses(b) == 10 * (b.levels - b.deviations) >= 7 * b.levels

check_duplicate_topics(paper) ==
    LET qs == AllQuestions(paper.sections)
    IN  \A i, j \in 1..Len(qs) :
          i # j => ~(qs[i].topic = qs[j].topic /\ qs[i].subtopic = qs[j].subtopic)

check_question_text_present(paper) ==
    LET qs == AllQuestions(paper.sections)
    IN  \A i \in 1..Len(qs) : strip(qs[i].question_text) # ""

BoolIntOne(b) == 1

BoolInt(b) == IF b THEN 1 ELSE 0

\* the deterministic part of verify_question_paper
deterministic_checks(paper, pattern, coverage) ==
    LET bloom == check_bloom_distribution(paper, coverage)
        results ==
          [marks_total |-> check_marks_total(paper, pattern),
           question_count |-> check_question_count(paper, pattern),
           section_structure |-> check_section_structure(paper, pattern),
           allowed_marks |-> check_allowed_marks(paper, pattern),
           module_weightage |-> check_module_weightage(paper, pattern),
           bloom_distribution |-> BloomPasses(bloom),
           duplicate_topics |-> check_duplicate_topics(paper),
           question_text |-> check_question_text_present(paper)]
        order == <<"marks_total", "question_count", "section_structure", "allowed_marks",
                   "module_weightage", "bloom_distribution", "duplicate_topics",
                   "question_text">>
        critical_pass == /\ results.marks_total
                         /\ results.question_count
                         /\ results.question_text
        soft_passes == BoolInt(results.section_structure)
                       + BoolInt(results.allowed_marks)
                       + BoolInt(results.module_weightage)
                       + BoolInt(results.bloom_distribution)
                       + BoolInt(results.duplicate_topics)
    IN  [results |-> results,
         bloom |-> bloom,
         issues |-> SelectSeq(order, LAMBDA c : ~results[c]),
         critical_pass |-> critical_pass,
         det_score |-> (IF critical_pass THEN 5 ELSE 2)
                       + ((5 * soft_passes) \div soft_total)]

NoDet ==
    [results |-> [c \in {"marks_total", "question_count", "section_structure",
                         "allowed_marks", "module_weightage", "bloom_distribution",
                         "duplicate_topics", "question_text"} |-> FALSE],
     bloom |-> [deviations |-> 0, levels |-> 1],
     issues |-> <<>>, critical_pass |-> FALSE, det_score |-> 0]

NoJudge == [status |-> "none", qualitative_scores |-> <<>>,
            qualitative_issues |-> <<>>, qualitative_suggestions |-> <<>>]

NoVerdict == [rating |-> 0, verdict |-> "none", issues |-> <<>>, suggestions |-> <<>>,
              deterministic_score |-> 0, qualitative_avg |-> 0]

\* the eight checks and the deterministic score
RunChecks ==
    /\ vf_pc = "checks"
    /\ det' = deterministic_checks(vf_paper, vf_pattern, bloom_coverage)
    /\ vf_pc' = "judge"
    /\ UNCHANGED <<vf_paper, vf_pattern, bloom_coverage, judge_attempt, judge_calls,
                   judge_log, llm_result, vf_result>>
    /\ UNCHANGED NotVerify

\* one pass of the retry loop of llm_judge, up to the handler in
\* verify_question_paper that catches what llm_judge raises
JudgeAttempt ==
    /\ vf_pc = "judge"
    /\ judge_attempt < judge_max_retries
    /\ judge_calls' = judge_calls + 1
    /\ \E answer \in JudgeAnswers :
         /\ judge_log' = Append(judge_log, answer.kind)
         /\ IF answer.kind = "json"
            THEN /\ llm_result' = [status |-> "ok",
                                   qualitative_scores |-> answer.qualitative_scores,
                                   qualitative_issues |-> answer.qualitative_issues,
                                   qualitative_suggestions |-> answer.qualitative_suggestions]
                 /\ vf_pc' = "rate"
                 /\ UNCHANGED judge_attempt
            ELSE IF answer.kind = "nondict"
            THEN \* json.loads returned a list: llm_result.get raises, caught outside
                 /\ llm_result' = [NoJudge EXCEPT !.status = "failed"]
                 /\ vf_pc' = "rate"
                 /\ UNCHANGED judge_attempt
            ELSE IF judge_attempt = judge_max_retries - 1
            THEN \* last attempt: llm_judge raises, caught outside
                 /\ llm_result' = [NoJudge EXCEPT !.status = "failed"]
                 /\ vf_pc' = "rate"
                 /\ UNCHANGED judge_attempt
            ELSE \* earlier attempt: after a connection error the loop sleeps and
                 \* continues, after any other error it falls through to the
                 \* next pass
                 /\ judge_attempt' = judge_attempt + 1
                 /\ UNCHANGED <<llm_result, vf_pc>>
    /\ UNCHANGED <<vf_paper, vf_pattern, bloom_coverage, det, vf_result>>
    /\ UNCHANGED NotVerify

final_rating_noclamp(det_score, judge) ==
    LET n == Len(judge.qualitative_scores)
    IN  IF judge.status = "failed" THEN 100 * det_score
        ELSE IF n = 0 THEN 60 * det_score + 200
        ELSE (60 * det_score * n + 40 * SumSeq(judge.qualitative_scores)) \div n

final_rating_neutral(det_score, judge) ==
    LET n == Len(judge.qualitative_scores)
        raw == IF judge.status = "failed" \/ n = 0 THEN 60 * det_score + 200
               ELSE (60 * det_score * n + 40 * SumSeq(judge.qualitative_scores)) \div n
    IN  IF raw < 0 THEN 0 ELSE IF raw > 1000 THEN 1000 ELSE raw

\* rating in hundredths: round(0.60 * det_score + 0.40 * qual_avg, 2) clamped
\* to [0, 10]; qual_avg is the mean of the scores, 5.0 when there are none,
\* and det_score when the judge failed
final_rating(det_score, judge) ==
    LET n == Len(judge.qualitative_scores)
        raw == IF judge.status = "failed" THEN 100 * det_score
               ELSE IF n = 0 THEN 60 * det_score + 200
               ELSE (60 * det_score * n + 40 * SumSeq(judge.qualitative_scores)) \div n
    IN  IF raw < 0 THEN 0 ELSE IF raw > 1000 THEN 1000 ELSE raw

qualitative_avg(det_score, judge) ==
    LET n == Len(judge.qualitative_scores)
    IN  IF judge.status = "failed" THEN 100 * det_score
        ELSE IF n = 0 THEN 500
        ELSE (100 * SumSeq(judge.qualitative_scores)) \div n

exposed_always(verdict, items) == items

\* exposed_issues / exposed_suggestions
exposed(verdict, items) == IF verdict = "REJECTED" THEN items ELSE <<>>

\* the rating, the verdict and what is exposed of the issues
Rate ==
    /\ vf_pc = "rate"
    /\ LET rating == final_rating(det.det_score, llm_result)
           verdict == IF rating >= 800 THEN "ACCEPTED" ELSE "REJECTED"
           issues == det.issues
                     \o [i \in 1..Len(llm_result.qualitative_issues) |-> "[Quality]"]
           suggestions == det.issues \o llm_result.qualitative_suggestions
       IN  vf_result' =
             [rating |-> rating, verdict |-> verdict,
              issues |-> exposed(verdict, issues),
              suggestions |-> exposed(verdict, suggestions),
              deterministic_score |-> 100 * det.det_score,
              qualitative_avg |-> qualitative_avg(det.det_score, llm_result)]
    /\ vf_pc' = "returned"
    /\ UNCHANGED <<vf_paper, vf_pattern, bloom_coverage, det, judge_attempt, judge_calls,
                   judge_log, llm_result>>
    /\ UNCHANGED NotVerify

\* verify_question_paper is not running
VerifyOff ==
    /\ vf_paper = [sections |-> <<>>]
    /\ vf_pattern = VPattern(<<>>)
    /\ bloom_coverage = [has_required |-> FALSE,
                         required_distribution |-> [l \in BloomLevels |-> 0],
                         session_target |-> [l \in BloomLevels |-> 0]]
    /\ det = NoDet
    /\ judge_attempt = 0
    /\ judge_calls = 0
    /\ judge_log = <<>>
    /\ llm_result = NoJudge
    /\ vf_result = NoVerdict
    /\ vf_pc = "off"

\* ---------------------------------------------------------- response repair
MaxText == 5

\* json.loads on the structural characters of a text ("{", "}", "[", "]" and
\* "," for a separator; what lies between them is left out), with a stack of
\* the openers still open, innermost first: [ok, open]; ok is FALSE once a
\* closer does not match the innermost opener
RECURSIVE Scan(_, _)
Scan(text, open) ==
    IF text = <<>> THEN [ok |-> TRUE, open |-> open]
    ELSE LET c == Head(text)
         IN  IF c \in {"{", "["} THEN Scan(Tail(text), <<c>> \o open)
             ELSE IF c = "," THEN Scan(Tail(text), open)
             ELSE IF open # <<>> /\ c = (IF Head(open) = "{" THEN "}" ELSE "]")
                  THEN Scan(Tail(text), Tail(open))
             ELSE [ok |-> FALSE, open |-> open]

\* truncated prefixes of well-nested texts that open with an object
Truncated ==
    {t \in UNION {[1..k -> {"{", "}", "[", "]", ","}] : k \in 1..MaxText} :
       /\ t[1] = "{"
       /\ Scan(t, <<>>).ok
       /\ Scan(t, <<>>).open # <<>>}

fix_incomplete_json(text) ==
    LET count(t, c) == Cardinality({i \in 1..Len(t) : t[i] = c})
        \* c * n of Python: empty when n <= 0
        times(c, n) == [i \in 1..n |-> c]
        \* str.find('{'): 0 when there is none
        start == IF \E i \in 1..Len(text) : text[i] = "{"
                 THEN CHOOSE i \in 1..Len(text) :
                        text[i] = "{" /\ \A j \in 1..(i - 1) : text[j] # "{"
                 ELSE 0
        cut == SubSeq(text, start, Len(text))
        open_braces == count(cut, "{")
        close_braces == count(cut, "}")
        open_brackets == count(cut, "[")
        close_brackets == count(cut, "]")
        stripped == IF cut # <<>> /\ cut[Len(cut)] = ","
                    THEN SubSeq(cut, 1, Len(cut) - 1) ELSE cut
    IN  IF start = 0 THEN text
        ELSE stripped \o times("]", open_brackets - close_brackets)
                      \o times("}", open_braces - close_braces)

\* generate_blueprint hands the text that failed to parse to fix_incomplete_json
Repair ==
    /\ fix_pc = "call"
    /\ fixed_json' = fix_incomplete_json(json_str)
    /\ fix_pc' = "returned"
    /\ UNCHANGED json_str
    /\ UNCHANGED NotRepair

\* fix_incomplete_json is not running
RepairOff ==
    /\ json_str = <<>>
    /\ fixed_json = <<>>
    /\ fix_pc = "off"

\* --------------------------------------------------------- specifications
\* select_questions entered with some content plan and some bank
InitSelect ==
    /\ WorkflowOff
    /\ blueprint \in Blueprints
    /\ pyq_bank \in Banks
    /\ used_pyq_ids = {}
    /\ draft_sections = <<>>
    /\ draft_questions = <<>>
    /\ stats = NoStats
    /\ sel_pc = "slot"
    /\ sel_error = "none"
    /\ slot_calls = 0
    /\ sec_i = 1
    /\ q_i = 1
    /\ BlueprintOff
    /\ VerifyOff
    /\ RepairOff

NextSelect ==
    \/ ResolveSlot
    \/ EndSection
    \/ ReturnDraft

\* generate_blueprint entered with a pattern the workflow built
InitBlueprint ==
    /\ WorkflowOff
    /\ SelectOff
    /\ paper_pattern \in Patterns
    /\ attempt = 0
    /\ llm_calls = 0
    /\ bp_pc = "loop"
    /\ bp_result = NoPlan
    /\ bp_path = "none"
    /\ validation_errors = <<>>
    /\ bp_validated = FALSE
    /\ bp_error = "none"
    /\ VerifyOff
    /\ RepairOff

NextBlueprint == BlueprintAttempt

InitWorkflow ==
    /\ WorkflowOff
    /\ SelectOff
    /\ BlueprintOff
    /\ VerifyOff
    /\ RepairOff

NextWorkflow ==
    \/ \E s \in Sessions, upload \in BOOLEAN : analyze_syllabus(s, upload)
    \/ \E s, syl \in Sessions, upload \in BOOLEAN : analyze_pyqs(s, syl, upload)
    \/ \E s, syl, pyq \in Sessions, form \in BloomForms : generate_paper(s, syl, pyq, form)
    \/ NodeStart
    \/ NodeCall
    \/ NodeFinish

\* the three endpoints called one after another, nobody listening on the channel
Spec == InitWorkflow /\ [][NextWorkflow]_vars

\* the same, with the graph runner taking every step of a started run: ainvoke
\* awaits each node to its end and follows the edge to the next
SpecFair ==
    /\ Spec
    /\ WF_vars(NodeStart)
    /\ WF_vars(NodeCall)
    /\ WF_vars(NodeFinish)

\* one more request on a store that earlier analyses have filled, with
\* subscribers coming and going while it runs
InitChannel ==
    /\ phase = "idle"
    /\ kind = "none"
    /\ sid = "none"
    /\ node = 0
    /\ result = "none"
    /\ state = initial_state
    /\ store = [s \in Sessions |->
                  IF s = "s1"
                  THEN [EmptyFolder EXCEPT !["syllabus_raw.txt"] = "text",
                                           !["syllabus.json"] = "syllabus_dict",
                                           !["pyqs_raw.txt"] = "text",
                                           !["pyqs.json"] = "pyqs_dict"]
                  ELSE EmptyFolder]
    /\ folders = {"s1"}
    /\ trace = <<>>
    /\ connections = {}
    /\ alive = {}
    /\ received = NoReceived
    /\ response = "none"
    /\ requests = MaxRequests - 1
    /\ connects = 0
    /\ bloom_form = NoForm
    /\ SelectOff
    /\ BlueprintOff
    /\ VerifyOff
    /\ RepairOff

NextChannel ==
    \/ \E s \in Sessions, form \in BloomForms : generate_paper(s, "s1", "s1", form)
    \/ NodeStart
    \/ NodeCall
    \/ NodeFinish
    \/ \E s \in Sessions : connect(s)
    \/ \E s \in Sessions : SocketClosed(s)

SpecChannel == InitChannel /\ [][NextChannel]_vars

\* select_questions run on every small content plan and bank
SpecSelect == InitSelect /\ [][NextSelect]_vars

\* verify_question_paper entered with a drafted paper, a pattern and a
\* cognitive-level requirement
InitVerify ==
    /\ WorkflowOff
    /\ SelectOff
    /\ BlueprintOff
    /\ vf_paper \in Papers
    /\ vf_pattern \in VerifyPatterns
    /\ bloom_coverage \in BloomCoverages
    /\ det = NoDet
    /\ judge_attempt = 0
    /\ judge_calls = 0
    /\ judge_log = <<>>
    /\ llm_result = NoJudge
    /\ vf_result = NoVerdict
    /\ vf_pc = "checks"
    /\ RepairOff

NextVerify ==
    \/ RunChecks
    \/ JudgeAttempt
    \/ Rate

\* fix_incomplete_json entered with a truncated response
InitRepair ==
    /\ WorkflowOff
    /\ SelectOff
    /\ BlueprintOff
    /\ VerifyOff
    /\ json_str \in Truncated
    /\ fixed_json = <<>>
    /\ fix_pc = "call"

\* fix_incomplete_json run on every truncated text
SpecRepair == InitRepair /\ [][Repair]_vars

\* verify_question_paper run on every paper, pattern and judge behaviour
SpecVerify == InitVerify /\ [][NextVerify]_vars

\* generate_blueprint run on every pattern against every sequence of answers
SpecBlueprint == InitBlueprint /\ [][NextBlueprint]_vars

\* ================================================================== claims
NodeIndex(k, name) == CHOOSE i \in 1..Len(Chain(k)) : Chain(k)[i] = name

GeneratePaperOrder ==
    <<"blueprint_build", "blueprint_verify", "question_select", "paper_verify",
      "final_generate">>

OrderIndex(name) == CHOOSE i \in 1..5 : GeneratePaperOrder[i] = name

\* the run of the last request failed inside a node
RunFailed == phase = "idle" /\ response = "500" /\ node >= 1

LastSaveOf(i) ==
    /\ trace[i].type = "save"
    /\ \A j \in (i + 1)..Len(trace) :
         ~(trace[j].type = "save" /\ trace[j].status = trace[i].status)

\* C1: in a generate-paper run the side effects of the stages come one stage
\* at a time in the order blueprint_build, blueprint_verify, question_select,
\* paper_verify, final_generate, and before a stage's first 'running' event
\* the preceding stage's artifact has been written to the session store.
C1_StagesInOrder ==
    kind = "generate_paper" =>
      /\ \A i, j \in 1..Len(trace) :
           i < j => OrderIndex(trace[i].step) <= OrderIndex(trace[j].step)
      /\ \A j \in 1..Len(trace) :
           LET m == OrderIndex(trace[j].step)
           IN  (trace[j].type = "progress" /\ trace[j].status = "running" /\ m > 1) =>
                 /\ \E i \in 1..(j - 1) :
                      /\ trace[i].type = "save"
                      /\ trace[i].step = GeneratePaperOrder[m - 1]
                      /\ trace[i].status = Artifact(GeneratePaperOrder[m - 1])
                 /\ store[sid][Artifact(GeneratePaperOrder[m - 1])] # "absent"

C1_Witness ==
    /\ kind = "generate_paper"
    /\ phase = "idle"
    /\ response = "200"
    /\ \E j \in 1..Len(trace) :
         trace[j] = Progress("final_generate", "completed", 100)

\* C4: when a node of a run raises, no later node of that run has produced
\* any side effect, and every file the run wrote before the failure is in
\* the session store with the content that was written.
C4_FailureHalts ==
    RunFailed =>
      /\ \A i \in 1..Len(trace) : NodeIndex(kind, trace[i].step) <= node
      /\ \A i \in 1..Len(trace) :
           LastSaveOf(i) => store[sid][trace[i].status] = trace[i].data

C4_Witness ==
    /\ RunFailed
    /\ kind = "generate_paper"
    /\ CurrentNode = "question_select"
    /\ store[sid]["blueprint.json"] = "blueprint_dict"
    /\ store[sid]["blueprint_verification.json"] # "absent"

\* C5 (as claimed): whenever a node fails, a progress event with status
\* 'failed' for that node and a completion event with success = false are
\* published on the session's channel.
C5_FailurePublished ==
    RunFailed =>
      /\ \E i \in 1..Len(trace) :
           /\ trace[i].type = "progress"
           /\ trace[i].step = CurrentNode
           /\ trace[i].status = "failed"
      /\ \E i \in 1..Len(trace) :
           trace[i].type = "completion" /\ ~trace[i].success

Unusable == {"none", "empty", "error", "nondict"}

Placeholders == {"syllabus_placeholder", "pyqs_error_dict", "verdict_placeholder"}

RECURSIVE Flatten(_)
Flatten(sections) ==
    IF sections = <<>> THEN <<>>
    ELSE Head(sections).questions \o Flatten(Tail(sections))

\* the questions resolved so far, in the order they were resolved
Resolved == Flatten(draft_sections) \o draft_questions

\* C2: in one select_questions run no identifier of a bank record is the
\* source_pyq_id of more than one resolved question, whatever the content
\* plan and the bank.
C2_AtMostOnceReuse ==
    \A i, j \in 1..Len(Resolved) :
      (i < j /\ Resolved[i].source_pyq_id # None) =>
        Resolved[i].source_pyq_id # Resolved[j].source_pyq_id

SameCriteria(a, b) ==
    /\ a.topic = b.topic /\ a.subtopic = b.subtopic
    /\ a.marks = b.marks /\ a.bloom_level = b.bloom_level

\* two slots with the same criteria were both resolved as prefer-historical
\* slots, the first from a bank record
C2_Witness ==
    /\ sel_pc = "returned"
    /\ \E i, j \in 1..Len(Resolved) :
         /\ i < j
         /\ SameCriteria(Resolved[i], Resolved[j])
         /\ Resolved[i].selection_method = "pyq_exact"
         /\ Resolved[j].selection_method # "generated_direct"

\* the record matches the slot at tier t (comparison after normalisation)
TierMatches(t, pyq, bp_q) ==
    /\ normalize(get(pyq.topic, "")) = normalize(bp_q.topic)
    /\ normalize(get(pyq.subtopic, "")) = normalize(bp_q.subtopic)
    /\ (t = 1 => pyq.marks = bp_q.marks)
    /\ (t <= 2 => normalize(get(pyq.bloom_level, "")) = normalize(bp_q.bloom_level))

\* positions of the unconsumed records that match the slot at tier t
Candidates(t, bp_q) ==
    {i \in 1..Len(pyq_bank) :
       pyq_bank[i].id \notin used_pyq_ids /\ TierMatches(t, pyq_bank[i], bp_q)}

BestTier(bp_q) ==
    IF Candidates(1, bp_q) # {} THEN 1
    ELSE IF Candidates(2, bp_q) # {} THEN 2
    ELSE IF Candidates(3, bp_q) # {} THEN 3
    ELSE 0

First(S) == CHOOSE i \in S : \A j \in S : i <= j

TierMethod == <<"pyq_exact", "pyq_rephrased_marks", "pyq_rephrased_bloom">>

\* C3: a prefer-historical slot that is resolved while some unconsumed record
\* matches it is resolved from the lowest-numbered tier that has an unconsumed
\* match, with the first such record in bank order: the method is that
\* tier's, the source is that record's id, the text is that record's
\* (verbatim at tier 1, rephrased at tiers 2 and 3).
C3_LowestTierFirstRecord ==
    [][(/\ sel_pc = "slot"
        /\ Len(draft_questions') = Len(draft_questions) + 1
        /\ CurrentSlot.is_pyq
        /\ BestTier(CurrentSlot) # 0) =>
         LET q == draft_questions'[Len(draft_questions')]
             t == BestTier(CurrentSlot)
             r == pyq_bank[First(Candidates(t, CurrentSlot))]
         IN  /\ q.selection_method = TierMethod[t]
             /\ q.source_pyq_id = r.id
             /\ q.question_text = (IF t = 1 THEN r.text ELSE rephrase_pyq(r.text))
       ]_vars

\* the first slot was resolved verbatim from a record that stands in the
\* bank behind a record matching the slot only by topic and subtopic
C3_Witness ==
    /\ Len(Resolved) >= 1
    /\ Resolved[1].selection_method = "pyq_exact"
    /\ \E i, j \in 1..Len(pyq_bank) :
         /\ i < j
         /\ pyq_bank[i].id # Absent
         /\ TierMatches(3, pyq_bank[i], Resolved[1])
         /\ ~TierMatches(2, pyq_bank[i], Resolved[1])
         /\ pyq_bank[j].id = Resolved[1].source_pyq_id
         /\ pyq_bank[j].text = Resolved[1].question_text

RECURSIVE PatternTotal(_, _)
PatternTotal(sections, count) ==
    IF sections = <<>> THEN 0
    ELSE LET n == getn(Head(sections).question_count, 1)
             slots == IF n < 0 THEN 0 ELSE n
         IN  (IF count THEN slots
              ELSE slots * getn(Head(sections).marks_per_question, 5))
             + PatternTotal(Tail(sections), count)

PlanMarks == SumSections(bp_result.sections, FALSE)

PlanSlots == SumSections(bp_result.sections, TRUE)

InErrors(e) == \E i \in 1..Len(validation_errors) : validation_errors[i] = e

C8_AlwaysReturnsPlan ==
    /\ llm_calls <= max_retries
    /\ bp_pc = "raised" => bp_error = "TransportError"

\* C9 (as claimed): validate_blueprint is run on the plan obtained by every
\* path, and a slot without marks is reported as a warning while the plan is
\* still returned.
C9_ValidatedOnEveryPath ==
    /\ bp_pc = "returned" => bp_validated
    /\ bp_error # "KeyError marks"

\* C10: a paper that fails a critical check (total marks, question count or
\* non-empty text) has a deterministic score of at most 7, a final rating
\* below 8 and the verdict REJECTED, whatever the judge scores and whatever
\* the soft checks give.
C10_CriticalFailRejected ==
    (vf_pc = "returned" /\ ~det.critical_pass) =>
        /\ det.det_score <= 7
        /\ vf_result.rating < 800
        /\ vf_result.verdict = "REJECTED"

Clamp(x) == IF x < 0 THEN 0 ELSE IF x > 1000 THEN 1000 ELSE x

\* C11: the returned rating is 0.6 x deterministic score + 0.4 x qualitative
\* score clamped to [0, 10] (here in hundredths), so it lies in [0, 10] even
\* for judge scores outside [0, 10]; the verdict is ACCEPTED exactly when the
\* rating is at least 8.0 and REJECTED otherwise.
C11_RatingClampedVerdictByThreshold ==
    vf_pc = "returned" =>
        /\ vf_result.rating =
             Clamp((60 * vf_result.deterministic_score
                    + 40 * vf_result.qualitative_avg) \div 100)
        /\ vf_result.rating \in 0..1000
        /\ vf_result.verdict = "ACCEPTED" <=> vf_result.rating >= 800
        /\ vf_result.verdict = "REJECTED" <=> vf_result.rating < 800

\* a judge scoring every dimension 20 had its share cut off at the top
C11_Witness ==
    /\ vf_pc = "returned"
    /\ llm_result.qualitative_scores = <<20, 20, 20, 20, 20>>
    /\ 60 * vf_result.deterministic_score + 40 * vf_result.qualitative_avg > 100000
    /\ vf_result.rating = 1000

SoftChecks == {"section_structure", "allowed_marks", "module_weightage",
               "bloom_distribution", "duplicate_topics"}

\* C12: the deterministic score is base + the number of passing soft checks,
\* base being 5 exactly when total marks, question count and text presence all
\* pass and 2 otherwise; the score lies in [0, 10].
C12_DetScoreBasePlusSoft ==
    vf_pc \in {"judge", "rate", "returned"} =>
        LET r == det.results
            base == IF r.marks_total /\ r.question_count /\ r.question_text
                    THEN 5 ELSE 2
        IN  /\ det.det_score = base + Cardinality({c \in SoftChecks : r[c]})
            /\ det.det_score \in 0..10

\* a paper passing the critical checks and failing exactly two soft ones
C12_Witness ==
    /\ vf_pc = "judge"
    /\ det.critical_pass
    /\ Cardinality({c \in SoftChecks : det.results[c]}) = 3
    /\ det.det_score = 8

\* C13: an ACCEPTED verdict carries no issues and no suggestions, whatever the
\* deterministic checks and the judge recorded.
C13_AcceptedExposesNothing ==
    (vf_pc = "returned" /\ vf_result.verdict # "REJECTED") =>
        /\ vf_result.issues = <<>>
        /\ vf_result.suggestions = <<>>

\* accepted although a check failed and the judge listed an issue
C13_Witness ==
    /\ vf_pc = "returned"
    /\ vf_result.verdict = "ACCEPTED"
    /\ det.issues # <<>>
    /\ llm_result.qualitative_issues # <<>>

\* C14: when the judging call fails on every attempt, a verdict is returned
\* whose qualitative score is the deterministic score, so the rating is the
\* deterministic score.
C14_JudgeFailedRatingIsDet ==
    /\ llm_result.status = "failed" => vf_pc \in {"rate", "returned"}
    /\ (vf_pc = "returned" /\ llm_result.status = "failed") =>
          /\ vf_result.qualitative_avg = 100 * det.det_score
          /\ vf_result.rating = 100 * det.det_score
          /\ vf_result.deterministic_score = 100 * det.det_score

\* both attempts ended in a connection error
C14_Witness ==
    /\ vf_pc = "returned"
    /\ llm_result.status = "failed"
    /\ judge_log = <<"connection_error", "connection_error">>

\* C15: the judging service is called again only after a transport error; a
\* malformed answer is never followed by another call.
C15_NoCallAfterMalformed ==
    \A i \in 1..Len(judge_log) - 1 : judge_log[i] = "connection_error"

\* C16: in the slot resolver a call to the generative service that fails
\* with a transport error is retried before the slot resolution fails, so a
\* run that failed on a transport error has made more than one call for the
\* slot.
C16_TransportErrorRetried ==
    (sel_pc = "raised" /\ sel_error = "TransportError") => slot_calls > 1

Generated == {"generated_direct", "generated_fallback"}

\* C17: a slot is resolved by generation exactly when it is always-synthesize
\* (is_pyq false) or no unconsumed record matches its topic and subtopic;
\* then the source identifier is unset and the consumed set is unchanged by
\* the slot. An always-synthesize slot is resolved by direct generation
\* whatever the bank holds.
C17_GeneratedIffNoHistorical ==
    [][(/\ sel_pc = "slot"
        /\ Len(draft_questions') = Len(draft_questions) + 1) =>
         LET q == draft_questions'[Len(draft_questions')]
         IN  /\ q.selection_method \in Generated
                  <=> (~CurrentSlot.is_pyq \/ Candidates(3, CurrentSlot) = {})
             /\ q.selection_method \in Generated =>
                  /\ q.source_pyq_id = None
                  /\ ~q.is_pyq_sourced
                  /\ used_pyq_ids' = used_pyq_ids
             /\ ~CurrentSlot.is_pyq => q.selection_method = "generated_direct"
             /\ q.selection_method = "generated_fallback" => CurrentSlot.is_pyq
       ]_vars

\* the first slot was generated directly although the bank holds an exact
\* match for it, and a later prefer-historical slot was generated because
\* no unconsumed record matched
C17_Witness ==
    /\ Len(Resolved) >= 2
    /\ Resolved[1].selection_method = "generated_direct"
    /\ \E i \in 1..Len(pyq_bank) :
         pyq_bank[i].id # Absent /\ TierMatches(1, pyq_bank[i], Resolved[1])
    /\ \E j \in 2..Len(Resolved) : Resolved[j].selection_method = "generated_fallback"

\* C18: a prefer-historical slot with no unconsumed tier-1 match and an
\* unconsumed record equal in topic, subtopic and level is resolved as
\* marks-adapted reuse: the text is what the adaptation call gave and not the
\* record's own, the source is the record's identifier, and the identifier
\* of every resolved question's source stays in the consumed set.
C18_MarksAdaptedReuse ==
    /\ [](\A i \in 1..Len(Resolved) :
            Resolved[i].source_pyq_id # None =>
              Resolved[i].source_pyq_id \in used_pyq_ids)
    /\ [][(/\ sel_pc = "slot"
           /\ Len(draft_questions') = Len(draft_questions) + 1
           /\ CurrentSlot.is_pyq
           /\ Candidates(1, CurrentSlot) = {}
           /\ Candidates(2, CurrentSlot) # {}) =>
            LET q == draft_questions'[Len(draft_questions')]
                r == pyq_bank[First(Candidates(2, CurrentSlot))]
            IN  /\ q.selection_method = "pyq_rephrased_marks"
                /\ r.marks # CurrentSlot.marks
                /\ q.question_text = rephrase_pyq(r.text)
                /\ q.question_text # r.text
                /\ q.source_pyq_id = r.id
                /\ r.id \in used_pyq_ids'
                /\ slot_calls' = 1
          ]_vars

\* a 10-mark slot was resolved from a 5-mark record of the same level, and a
\* later slot with the same criteria could not use that record again
C18_Witness ==
    /\ sel_pc = "returned"
    /\ \E i, j \in 1..Len(Resolved) :
         /\ i < j
         /\ Resolved[i].selection_method = "pyq_rephrased_marks"
         /\ Resolved[i].marks = 10
         /\ SameCriteria(Resolved[i], Resolved[j])
         /\ Resolved[j].source_pyq_id # Resolved[i].source_pyq_id

\* the validator of the running generate-paper request returned REJECTED
RejectedReturned ==
    /\ kind = "generate_paper"
    /\ \E i \in 1..Len(trace) : trace[i] = Returned("paper_verify", "REJECTED")

\* C19: a REJECTED verdict does not halt the workflow: the verdict is
\* persisted as paper_verification.json, final_generate runs, and the run
\* ends with a completion event with success = true that carries the verdict.
C19_RejectedStillCompletes ==
    /\ [](RejectedReturned =>
            /\ response \in {"pending", "200"}
            /\ CurrentNode \in {"paper_verify", "final_generate"}
            /\ CurrentNode = "paper_verify" => phase = "finish"
            /\ CurrentNode = "final_generate" =>
                 /\ store[sid]["paper_verification.json"] = "verdict_REJECTED"
                 /\ state.paper_verdict = "verdict_REJECTED"
            /\ response = "200" =>
                 /\ trace[Len(trace)] =
                      CompletionMsg("final_generate", TRUE, "verdict_REJECTED")
                 /\ \E i \in 1..Len(trace) :
                      trace[i] = Progress("final_generate", "completed", 100)
                 /\ store[sid]["final_paper.json"] # "absent")
    /\ RejectedReturned ~> (RejectedReturned /\ phase = "idle" /\ response = "200")

\* a run whose paper was rejected has ended with its completion event
C19_Witness ==
    /\ RejectedReturned
    /\ phase = "idle"
    /\ response = "200"
    /\ trace[Len(trace)].type = "completion"
    /\ trace[Len(trace)].success

\* a generate-paper request is being received
GenerateRequest == requests' = requests + 1 /\ kind' = "generate_paper"

\* the request is answered with an error and has had no effect
RejectedUntouched ==
    /\ response' \in {"400", "404"}
    /\ phase' = "idle"
    /\ trace' = <<>>
    /\ received' = NoReceived
    /\ store' = store
    /\ folders' = folders

C21_DroppedNotQueued ==
    [][IF requests' = requests + 1
       THEN received' = NoReceived
       ELSE \A s \in Sessions :
              LET published == ChannelMsgs(SubSeq(trace', Len(trace) + 1, Len(trace')))
              IN  received'[s] =
                    IF s = sid /\ s \in connections /\ s \in alive
                    THEN received[s] \o published
                    ELSE received[s]
      ]_vars

\* a subscriber that connected while its session's run was under way has got
\* messages, but fewer than were published for the session
C21_Witness ==
    /\ sid \in connections
    /\ received[sid] # <<>>
    /\ Len(received[sid]) < Len(ChannelMsgs(trace))
    /\ \A s \in Sessions \ {sid} : received[s] = <<>>

\* C22: the section-structure check passes only if every section named in
\* the pattern appears in the paper with the pattern's question count and
\* every question carrying the pattern's marks per question.
C22_PatternSectionsPresent ==
    (vf_pc \in {"judge", "rate", "returned"} /\ det.results.section_structure) =>
        \A k \in 1..Len(vf_pattern.sections) :
          \E i \in 1..Len(vf_paper.sections) :
            LET pat == vf_pattern.sections[k]
                section == vf_paper.sections[i]
            IN  /\ section.section_name = pat.section_name
                /\ Len(section.questions) = pat.question_count
                /\ \A j \in 1..Len(section.questions) :
                     section.questions[j].marks = pat.marks_per_question

\* levels whose share of the paper's marks is more than 7 points off the target
Exceeding(paper, target) ==
    LET qs == AllQuestions(paper.sections)
        total == SumSeq(MarksOf(qs))
    IN  {l \in DOMAIN target :
           Abs(100 * MarksWhere(qs, "bloom_level", l) - target[l] * total) > 7 * total}

\* C23: when the orchestrator runs the validation, the bloom check is
\* evaluated against the session's target distribution: the sub-score is
\* max(0, 1 - levels exceeding the tolerance / levels in the target).
C23_BloomAgainstSessionTarget ==
    (vf_pc \in {"judge", "rate", "returned"} /\ ~bloom_coverage.has_required) =>
        LET exceeding == Cardinality(Exceeding(vf_paper, bloom_coverage.session_target))
            levels == Cardinality(DOMAIN bloom_coverage.session_target)
        IN  \* 1 - deviations / levels of the check = 1 - exceeding / levels
            /\ det.bloom.deviations * levels = exceeding * det.bloom.levels
            /\ exceeding > 0 => det.bloom.deviations > 0

\* C24: for a truncated prefix of a well-nested text, fix_incomplete_json
\* returns a text in which every unclosed opener is closed in matching
\* nesting order and a trailing comma is removed, so that it parses.
C24_ClosedInNestingOrder ==
    fix_pc = "returned" =>
        /\ Scan(fixed_json, <<>>).ok
        /\ Scan(fixed_json, <<>>).open = <<>>
        /\ fixed_json[Len(fixed_json)] # ","

SlotFields(q) ==
    <<q.question_number, q.module, q.topic, q.subtopic, q.marks, q.bloom_level>>

RECURSIVE TotalMarks(_)
TotalMarks(questions) ==
    IF questions = <<>> THEN 0
    ELSE Head(questions).marks + TotalMarks(Tail(questions))

\* C25: a returned draft has the blueprint's sections in the blueprint's
\* order, each with one resolved question per slot in slot order and with the
\* slot's question_number, module, topic, subtopic, marks and bloom_level;
\* the draft's question count and total marks are the blueprint's.
C25_OneResolvedPerSlot ==
    sel_pc = "returned" =>
        /\ Len(draft_sections) = Len(blueprint.sections)
        /\ \A i \in 1..Len(draft_sections) :
             /\ draft_sections[i].section_name = blueprint.sections[i].section_name
             /\ Len(draft_sections[i].questions) = Len(blueprint.sections[i].questions)
             /\ \A k \in 1..Len(draft_sections[i].questions) :
                  /\ SlotFields(draft_sections[i].questions[k])
                       = SlotFields(blueprint.sections[i].questions[k])
                  /\ draft_sections[i].questions[k].question_text # None
        /\ Len(Flatten(draft_sections)) = Len(Flatten(blueprint.sections))
        /\ TotalMarks(Flatten(draft_sections)) = TotalMarks(Flatten(blueprint.sections))

\* a draft of two sections and three slots of different marks was returned,
\* one slot resolved by adapting a record of other marks
C25_Witness ==
    /\ sel_pc = "returned"
    /\ Len(draft_sections) = 2
    /\ Len(Flatten(draft_sections)) = 3
    /\ TotalMarks(Flatten(draft_sections)) = 20
    /\ \E i \in 1..3 : Flatten(draft_sections)[i].selection_method = "pyq_rephrased_marks"

\* C26: in a returned draft total_questions is the sum of the five method
\* counters, used_pyq_ids is exactly the set of the resolved questions'
\* non-null source_pyq_id values, and its size is pyq_exact_match +
\* pyq_rephrased_marks + pyq_rephrased_bloom.
C26_StatsAndConsumedAgree ==
    sel_pc = "returned" =>
        LET st == draft_paper.selection_stats
            qs == Flatten(draft_paper.sections)
        IN  /\ st.total_questions
                 = st.pyq_exact_match + st.pyq_rephrased_marks + st.pyq_rephrased_bloom
                   + st.generated_new + st.direct_generated
            /\ draft_paper.used_pyq_ids
                 = {qs[i].source_pyq_id : i \in {j \in 1..Len(qs) : qs[j].source_pyq_id # None}}
            /\ Cardinality(draft_paper.used_pyq_ids)
                 = st.pyq_exact_match + st.pyq_rephrased_marks + st.pyq_rephrased_bloom

\* a returned draft with a reused record, an adapted record and a generated
\* question
C26_Witness ==
    /\ sel_pc = "returned"
    /\ stats.pyq_exact_match = 1
    /\ stats.pyq_rephrased_marks + stats.pyq_rephrased_bloom = 1
    /\ stats.generated_new + stats.direct_generated = 1
    /\ Cardinality(used_pyq_ids) = 2

\* C28: a slot resolved at tier 2 takes a record whose marks differ from the
\* slot's, a slot resolved at tier 3 takes a record whose level differs (after
\* normalisation) from the slot's; with an unconsumed record equal in marks
\* (and level) the slot is resolved at the lower-numbered tier.
C28_TiersDisjoint ==
    [][(/\ sel_pc = "slot"
        /\ Len(draft_questions') = Len(draft_questions) + 1) =>
         LET q == draft_questions'[Len(draft_questions')]
             slot == CurrentSlot
             m2 == find_match(pyq_bank, used_pyq_ids, 2, slot)
             m3 == find_match(pyq_bank, used_pyq_ids, 3, slot)
         IN  /\ q.selection_method = "pyq_rephrased_marks" =>
                  /\ pyq_bank[m2].id = q.source_pyq_id
                  /\ pyq_bank[m2].marks # slot.marks
             /\ q.selection_method = "pyq_rephrased_bloom" =>
                  /\ pyq_bank[m3].id = q.source_pyq_id
                  /\ normalize(get(pyq_bank[m3].bloom_level, ""))
                       # normalize(slot.bloom_level)
             /\ (slot.is_pyq /\ Candidates(1, slot) # {}) =>
                  q.selection_method = "pyq_exact"
             /\ (slot.is_pyq /\ Candidates(2, slot) # {}) =>
                  q.selection_method \in {"pyq_exact", "pyq_rephrased_marks"}
       ]_vars

\* a draft in which one slot was resolved at tier 2 and another at tier 3
C28_Witness ==
    /\ \E i \in 1..Len(Resolved) : Resolved[i].selection_method = "pyq_rephrased_marks"
    /\ \E i \in 1..Len(Resolved) : Resolved[i].selection_method = "pyq_rephrased_bloom"

\* C29: without custom sections the two derived sections' question counts
\* sum to total_questions and their question_count * marks_per_question sum
\* to total_marks, for every total_marks and total_questions >= 1.
C29_DefaultSectionsSum ==
    LET p == paper_pattern
    IN  (/\ bp_pc # "off"
         /\ p.total_questions >= 1
         /\ p.sections = default_sections(p.total_marks, p.total_questions)) =>
            /\ Len(p.sections) = 2
            /\ p.sections[1].question_count + p.sections[2].question_count
                 = p.total_questions
            /\ p.sections[1].question_count * p.sections[1].marks_per_question
                 + p.sections[2].question_count * p.sections[2].marks_per_question
                 = p.total_marks

\* the record has the fields of format_pyqs (question, topic, subtopic,
\* marks) and no others
Formatted(pyq) == pyq.id = Absent /\ pyq.text = Absent /\ pyq.bloom_level = Absent

\* C30: a prefer-historical slot resolved against a non-empty bank of records
\* with the fields of the bank-formatting stage ends with a resolved question:
\* the slot's pass of the loop does not end with a KeyError.
C30_FormattedBankResolves ==
    (/\ sel_pc = "raised"
     /\ CurrentSlot.is_pyq
     /\ pyq_bank # <<>>
     /\ \A i \in 1..Len(pyq_bank) : Formatted(pyq_bank[i])) =>
        sel_error # "KeyError"

\* the positions in the trace of the progress events of a stage
ProgressOf(step) ==
    {i \in 1..Len(trace) : trace[i].type = "progress" /\ trace[i].step = step}

Completions == {i \in 1..Len(trace) : trace[i].type = "completion"}

\* the generate-paper run of the last request reached its end
RunEnded == kind = "generate_paper" /\ phase = "idle" /\ response = "200"

\* C27: in a generate-paper run the progress percentages of a stage never
\* decrease and at most one completion event is published; in a run that
\* reached the end there is exactly one, published after the 'completed'
\* progress event of every stage, and every stage's progress events start
\* with status 'running' and end at 100 with status 'completed'.
C27_OneCompletionAfterAllStages ==
    kind = "generate_paper" =>
      /\ Cardinality(Completions) <= 1
      /\ \A i, j \in 1..Len(trace) :
           (i < j /\ i \in ProgressOf(trace[j].step)
              /\ j \in ProgressOf(trace[j].step))
             => /\ trace[i].progress <= trace[j].progress
                /\ trace[i].status = "running"
      /\ RunEnded =>
           /\ Cardinality(Completions) = 1
           /\ \A k \in 1..Len(GeneratePaperOrder) :
                LET own == ProgressOf(GeneratePaperOrder[k])
                    first == CHOOSE i \in own : \A j \in own : i <= j
                    last == CHOOSE i \in own : \A j \in own : j <= i
                IN  /\ own # {}
                    /\ trace[first].status = "running"
                    /\ trace[last].status = "completed"
                    /\ trace[last].progress = 100
                    /\ \A c \in Completions : last < c

\* a generate-paper run ended after a rejected paper and published its
\* completion event as the last message of the run
C27_Witness ==
    /\ RunEnded
    /\ RejectedReturned
    /\ trace[Len(trace)].type = "completion"
    /\ Cardinality(ProgressOf("final_generate")) = 5

=============================================================================
